---- MODULE Spec2Model ----
(***************************************************************************)
(* Study Pilot AI, Ask page (frontend/src/pages/AskPage.jsx): the local   *)
(* knowledge matching engine generateAIResponse and the page handlers     *)
(* around it (handleSubmit, handleFileUpload, removeFile, clearChat).      *)
(*                                                                         *)
(* Representation.                                                         *)
(*  - A JavaScript string that the code inspects (a query, a knowledge    *)
(*    base key) is a sequence of one-character strings, so includes(),    *)
(*    toLowerCase(), trim(), split(' ') and the three regular expressions  *)
(*    are computed character by character.                                 *)
(*  - A text the code only passes around (an answer body, a prefix, a     *)
(*    suffix) is one opaque chunk; a concatenation of such texts is the    *)
(*    sequence of its chunks.  null is the empty sequence (falsy, as in    *)
(*    JavaScript; every table answer is a non-empty text).                 *)
(*  - A confidence is held in hundredths: 0.65 is 65, 0.98 is 98.          *)
(*  - Math.random() is k / RandomSteps for some k in 0 .. RandomSteps-1.   *)
(*  - Message timestamps (new Date()) are not modelled.                    *)
(*                                                                         *)
(* Further: the quiz page (frontend/src/pages/QuizPage.jsx), the login    *)
(* page (frontend/src/pages/LoginPage.jsx) and the session kept by        *)
(* services/api (getAuthData, setAuthData, clearAuthData, fetchWithAuth,   *)
(* authApi) with the ProtectedRoute of App.                                *)
(*  - A value that may be null is <<>> (null) or <<v>>.                    *)
(*  - A JavaScript object that is stored or sent is the sequence of its   *)
(*    <<key, value>> pairs in insertion order.                             *)
(***************************************************************************)
EXTENDS Integers, Sequences, FiniteSets, TLC

VARIABLES
    query,          \* useState(''): the text of the chat input
    uploadedFiles,  \* useState([]): the files attached to the next submit
    loading,        \* useState(false)
    messages,       \* useState([]) after the mount effect: the conversation
    calls,          \* the generateAIResponse calls in flight, oldest first
    knowledgeStore, \* the object the module constant knowledgeBase refers to
    quizPage,       \* the state hooks of QuizPage and its request in flight
    loginPage,      \* the state hooks of LoginPage
    localStorage,   \* the item 'studypilot_auth' of window.localStorage
    location,       \* the path the router shows
    requests        \* the fetch calls of services/api in flight, oldest first

vars == <<query, uploadedFiles, loading, messages, calls, knowledgeStore,
          quizPage, loginPage, localStorage, location, requests>>

\* the Ask page
askPage == <<query, uploadedFiles, loading, messages, calls, knowledgeStore>>

\* the session: the login page, the stored auth data, the route and the
\* requests
session == <<loginPage, localStorage, location, requests>>

\* what the Ask page leaves alone
otherPages == <<quizPage, session>>

-----------------------------------------------------------------------------
(* Bounds of the model *)

\* Math.random() takes the values k / RandomSteps, k in 0 .. RandomSteps - 1
RandomSteps == 2
\* the conversation holds at most MaxMessages messages, the answers awaited included
MaxMessages == 4
\* at most MaxFiles files are attached at a time
MaxFiles == 1
\* a composed query is made of at most MaxWords fragments of Vocabulary
MaxWords == 2
\* a conversation taken up again holds at most MaxPast exchanges
MaxPast == 5

-----------------------------------------------------------------------------
(* JavaScript strings *)

\* one statement after another: Rest applied to the value the statements
\* before it have computed (computed once)
Then(value, Rest(_)) == CHOOSE out \in { Rest(v) : v \in {value} } : TRUE

Null == <<>>

WhiteSpace == {" ", "\t"}

UpperLetters == <<"A","B","C","D","E","F","G","H","I","J","K","L","M","N","O","P","Q","R","S","T","U","V","W","X","Y","Z">>

LowerLetters == <<"a","b","c","d","e","f","g","h","i","j","k","l","m","n","o","p","q","r","s","t","u","v","w","x","y","z">>

Digits == <<"0","1","2","3","4","5","6","7","8","9">>

\* \w of a regular expression
IsWordChar(c) ==
    \/ \E i \in 1..Len(LowerLetters) : c = LowerLetters[i]
    \/ \E i \in 1..Len(UpperLetters) : c = UpperLetters[i]
    \/ \E i \in 1..Len(Digits) : c = Digits[i]
    \/ c = "_"

\* String.prototype.toLowerCase, one character
LowerChar(c) ==
    IF \E i \in 1..Len(UpperLetters) : c = UpperLetters[i]
    THEN LowerLetters[CHOOSE i \in 1..Len(UpperLetters) : c = UpperLetters[i]]
    ELSE c

\* a variant: a query matched without lower-casing it
ToLowerCase_Missing(s) == s

\* String.prototype.toLowerCase
ToLowerCase(s) == [i \in 1..Len(s) |-> LowerChar(s[i])]

RECURSIVE TrimStart(_)
TrimStart(s) ==
    IF s = <<>> THEN s
    ELSE IF Head(s) \in WhiteSpace THEN TrimStart(Tail(s)) ELSE s

RECURSIVE TrimEnd(_)
TrimEnd(s) ==
    IF s = <<>> THEN s
    ELSE IF s[Len(s)] \in WhiteSpace THEN TrimEnd(SubSeq(s, 1, Len(s) - 1)) ELSE s

\* String.prototype.trim
Trim(s) == TrimEnd(TrimStart(s))

\* a variant: the query taken as it was submitted
LowerQuery_Raw(text) == text

\* const lowerQuery = query.toLowerCase().trim();
LowerQuery(text) == Trim(ToLowerCase(text))

\* t occurs in s right after the first p characters
OccursAt(s, t, p) == p + Len(t) <= Len(s) /\ \A k \in 1..Len(t) : s[p + k] = t[k]

\* a variant: includes() called the wrong way round
Includes_Swapped(s, t) == \E p \in 0..Len(t) : OccursAt(t, s, p)

\* String.prototype.includes
Includes(s, t) == \E p \in 0..Len(s) : OccursAt(s, t, p)

\* String.prototype.split(' '): the pieces of s between single blanks
RECURSIVE SplitFrom(_, _, _)
SplitFrom(s, i, piece) ==
    IF i > Len(s) THEN <<piece>>
    ELSE IF s[i] = " " THEN <<piece>> \o SplitFrom(s, i + 1, <<>>)
    ELSE SplitFrom(s, i + 1, Append(piece, s[i]))

Split(s) == SplitFrom(s, 1, <<>>)

\* the positions p + j reached from p by skipping j >= 0 white-space characters (\s*)
SkipSpaces(s, p) ==
    { e \in p..Len(s) : \A k \in (p + 1)..e : s[k] \in WhiteSpace }

\* A pattern is a sequence of literals with \s* between two consecutive ones.
\* MatchEnds is the set of positions at which a match of pat[k..] that starts
\* right after the first p characters of s can end.
RECURSIVE MatchEnds(_, _, _, _)
MatchEnds(s, p, pat, k) ==
    IF k > Len(pat) THEN {p}
    ELSE IF ~OccursAt(s, pat[k], p) THEN {}
    ELSE LET q == p + Len(pat[k])
         IN IF k = Len(pat) THEN {q}
            ELSE UNION { MatchEnds(s, e, pat, k + 1) : e \in SkipSpaces(s, q) }

\* \b after a word character at position e
WordBoundaryAfter(s, e) == e = Len(s) \/ ~IsWordChar(s[e + 1])

\* /^(alt1|alt2|...)\b/.test(s), every alternative ending in a word character
TestAnchoredWord(s, alts) ==
    \E a \in alts : \E e \in MatchEnds(s, 0, a, 1) : WordBoundaryAfter(s, e)

\* /alt1|alt2|.../.test(s)
TestAnywhere(s, alts) ==
    \E a \in alts : \E p \in 0..Len(s) : MatchEnds(s, p, a, 1) # {}

-----------------------------------------------------------------------------
(* The knowledge tables, in their authoring order (Object.entries order) *)

knowledgeBase == <<
    [key |-> <<"b","i","n","a","r","y"," ","s","e","a","r","c","h"," ","t","r","e","e">>, answer |-> <<"kb:binary search tree">>, confidence |-> 95, topic |-> "Data Structures"],
    [key |-> <<"q","u","i","c","k"," ","s","o","r","t">>, answer |-> <<"kb:quick sort">>, confidence |-> 94, topic |-> "Algorithms"],
    [key |-> <<"m","e","r","g","e"," ","s","o","r","t">>, answer |-> <<"kb:merge sort">>, confidence |-> 93, topic |-> "Algorithms"],
    [key |-> <<"l","i","n","k","e","d"," ","l","i","s","t">>, answer |-> <<"kb:linked list">>, confidence |-> 92, topic |-> "Data Structures"],
    [key |-> <<"h","a","s","h"," ","t","a","b","l","e">>, answer |-> <<"kb:hash table">>, confidence |-> 94, topic |-> "Data Structures"],
    [key |-> <<"s","t","a","c","k">>, answer |-> <<"kb:stack">>, confidence |-> 95, topic |-> "Data Structures"],
    [key |-> <<"q","u","e","u","e">>, answer |-> <<"kb:queue">>, confidence |-> 94, topic |-> "Data Structures"],
    [key |-> <<"g","r","a","p","h">>, answer |-> <<"kb:graph">>, confidence |-> 93, topic |-> "Data Structures"],
    [key |-> <<"h","e","a","p">>, answer |-> <<"kb:heap">>, confidence |-> 92, topic |-> "Data Structures"],
    [key |-> <<"f","i","r","s","t"," ","l","a","w"," ","o","f"," ","t","h","e","r","m","o","d","y","n","a","m","i","c","s">>, answer |-> <<"kb:first law of thermodynamics">>, confidence |-> 95, topic |-> "Thermodynamics"],
    [key |-> <<"s","e","c","o","n","d"," ","l","a","w"," ","o","f"," ","t","h","e","r","m","o","d","y","n","a","m","i","c","s">>, answer |-> <<"kb:second law of thermodynamics">>, confidence |-> 94, topic |-> "Thermodynamics"],
    [key |-> <<"c","a","r","n","o","t"," ","c","y","c","l","e">>, answer |-> <<"kb:carnot cycle">>, confidence |-> 93, topic |-> "Thermodynamics"],
    [key |-> <<"e","n","t","r","o","p","y">>, answer |-> <<"kb:entropy">>, confidence |-> 92, topic |-> "Thermodynamics"],
    [key |-> <<"f","o","u","r","i","e","r"," ","t","r","a","n","s","f","o","r","m">>, answer |-> <<"kb:fourier transform">>, confidence |-> 94, topic |-> "Signal Processing"],
    [key |-> <<"n","y","q","u","i","s","t"," ","t","h","e","o","r","e","m">>, answer |-> <<"kb:nyquist theorem">>, confidence |-> 93, topic |-> "Signal Processing"],
    [key |-> <<"c","o","n","v","o","l","u","t","i","o","n">>, answer |-> <<"kb:convolution">>, confidence |-> 92, topic |-> "Signal Processing"],
    [key |-> <<"r","e","c","u","r","s","i","o","n">>, answer |-> <<"kb:recursion">>, confidence |-> 95, topic |-> "Programming"],
    [key |-> <<"b","i","g"," ","o"," ","n","o","t","a","t","i","o","n">>, answer |-> <<"kb:big o notation">>, confidence |-> 94, topic |-> "Algorithms"],
    [key |-> <<"d","y","n","a","m","i","c"," ","p","r","o","g","r","a","m","m","i","n","g">>, answer |-> <<"kb:dynamic programming">>, confidence |-> 93, topic |-> "Algorithms"],
    [key |-> <<"w","h","a","t"," ","i","s">>, answer |-> <<"kb:what is">>, confidence |-> 70, topic |-> "General"],
    [key |-> <<"h","o","w"," ","d","o","e","s">>, answer |-> <<"kb:how does">>, confidence |-> 70, topic |-> "General"],
    [key |-> <<"e","x","p","l","a","i","n">>, answer |-> <<"kb:explain">>, confidence |-> 70, topic |-> "General"],
    [key |-> <<"h","e","l","p">>, answer |-> <<"kb:help">>, confidence |-> 85, topic |-> "General"] >>

extendedTopics == <<
    [kw |-> <<"a","r","r","a","y">>, text |-> <<"ext:array">>, conf |-> 90, top |-> "Data Structures"],
    [kw |-> <<"p","o","i","n","t","e","r">>, text |-> <<"ext:pointer">>, conf |-> 88, top |-> "Programming"],
    [kw |-> <<"o","o","p">>, text |-> <<"ext:oop">>, conf |-> 92, top |-> "Programming"],
    [kw |-> <<"s","q","l">>, text |-> <<"ext:sql">>, conf |-> 90, top |-> "Databases"],
    [kw |-> <<"c","o","m","p","l","e","x","i","t","y">>, text |-> <<"ext:complexity">>, conf |-> 91, top |-> "Algorithms"],
    [kw |-> <<"b","f","s">>, text |-> <<"ext:bfs">>, conf |-> 92, top |-> "Algorithms"],
    [kw |-> <<"d","f","s">>, text |-> <<"ext:dfs">>, conf |-> 92, top |-> "Algorithms"],
    [kw |-> <<"b","i","n","a","r","y"," ","s","e","a","r","c","h">>, text |-> <<"ext:binary search">>, conf |-> 94, top |-> "Algorithms"] >>

\* /^(hi|hello|hey|good\s*(morning|afternoon|evening)|howdy|sup)\b/
GreetingAlternatives == {
    <<<<"h","i">>>>, <<<<"h","e","l","l","o">>>>, <<<<"h","e","y">>>>,
    <<<<"g","o","o","d">>, <<"m","o","r","n","i","n","g">>>>, <<<<"g","o","o","d">>, <<"a","f","t","e","r","n","o","o","n">>>>, <<<<"g","o","o","d">>, <<"e","v","e","n","i","n","g">>>>,
    <<<<"h","o","w","d","y">>>>, <<<<"s","u","p">>>> }

\* /thank|thanks|thx|appreciate/
ThanksAlternatives == { <<<<"t","h","a","n","k">>>>, <<<<"t","h","a","n","k","s">>>>, <<<<"t","h","x">>>>, <<<<"a","p","p","r","e","c","i","a","t","e">>>> }

\* /who\s*(are|r)\s*you|what\s*(are|r)\s*you|your\s*name|about\s*you/
IdentityAlternatives == {
    <<<<"w","h","o">>, <<"a","r","e">>, <<"y","o","u">>>>, <<<<"w","h","o">>, <<"r">>, <<"y","o","u">>>>,
    <<<<"w","h","a","t">>, <<"a","r","e">>, <<"y","o","u">>>>, <<<<"w","h","a","t">>, <<"r">>, <<"y","o","u">>>>,
    <<<<"y","o","u","r">>, <<"n","a","m","e">>>>, <<<<"a","b","o","u","t">>, <<"y","o","u">>>> }

suggestions == << "Binary Search Tree", "Quick Sort", "Thermodynamics",
                  "Fourier Transform", "Dynamic Programming", "Big O Notation" >>

friendlyPrefixes == << "Great question! ", "Ah, I see what you're asking! ",
                       "Let me explain that for you. ", "That's an interesting topic! ",
                       "Happy to help with this! " >>

friendlySuffixes == << "Does that make sense? Feel free to ask follow-up questions!",
                       "Let me know if you'd like me to explain any part in more detail!",
                       "Hope that helps! What else would you like to know?",
                       "Anything else you're curious about?" >>

GreetingAnswer == <<"Hey there! Great to see you!">>

ThanksAnswer == <<"You're welcome! Happy to help!">>

IdentityAnswer == <<"I'm Study Pilot AI - your personal learning companion!">>

\* the fallback template with the picked suggestion inserted after **Try:**
FallbackAnswer(pick) == <<"Interesting question! ... Try: ", pick, " Or rephrase and I'll help!">>

-----------------------------------------------------------------------------
(* Math.random *)

\* the values k of Math.random() = k / RandomSteps
RandomValues == 0..(RandomSteps - 1)

\* Math.floor(Math.random() * n), as a 1-based index
RandomIndex(r, n) == ((r * n) \div RandomSteps) + 1

\* a variant: Math.random() * 1200, without the 800 ms every delay starts from
ThinkingTime_NoFloor(r) == (r * 1200) \div RandomSteps

\* 800 + Math.random() * 1200, in whole milliseconds
ThinkingTime(r) == 800 + ((r * 1200) \div RandomSteps)

-----------------------------------------------------------------------------
(* generateAIResponse: the body of the timer callback *)

\* keyWords.forEach(word => { if (lowerQuery.includes(word)) score += 1; })
RECURSIVE WordHits(_, _, _)
WordHits(keyWords, lowerQuery, i) ==
    IF i > Len(keyWords) THEN 0
    ELSE (IF Includes(lowerQuery, keyWords[i]) THEN 1 ELSE 0)
         + WordHits(keyWords, lowerQuery, i + 1)

\* a variant: a phrase match that counts one point a word
Score_PhraseUnweighted(key, lowerQuery) ==
    LET Count(keyWords) ==
            IF Includes(lowerQuery, key)
            THEN Len(keyWords)
            ELSE WordHits(keyWords, lowerQuery, 1)
    IN Then(Split(key), Count)

\* the score of one key
Score(key, lowerQuery) ==
    LET Count(keyWords) ==
            IF Includes(lowerQuery, key)
            THEN Len(keyWords) * 3
            ELSE WordHits(keyWords, lowerQuery, 1)
    IN Then(Split(key), Count)

\* a variant: if (score >= bestScore): the last of several equal scores is kept
IsBetter_OrEqual(score, bestScore) == score >= bestScore

\* if (score > bestScore) { bestScore = score; bestMatch = value; }
IsBetter(score, bestScore) == score > bestScore

\* the for loop over Object.entries(knowledgeBase), from entry i on;
\* bestMatch is the index of the entry held, 0 for null
RECURSIVE MatchLoop(_, _, _, _)
MatchLoop(lowerQuery, i, bestScore, bestMatch) ==
    IF i > Len(knowledgeStore) THEN [bestScore |-> bestScore, bestMatch |-> bestMatch]
    ELSE LET Compare(score) ==
                 IF IsBetter(score, bestScore)
                 THEN MatchLoop(lowerQuery, i + 1, score, i)
                 ELSE MatchLoop(lowerQuery, i + 1, bestScore, bestMatch)
         IN Then(Score(knowledgeStore[i].key, lowerQuery), Compare)

\* a variant: let topic = '': a response that keeps the initial topic has no label
InitialResult_NoTopic == [response |-> Null, confidence |-> 85, topic |-> ""]

\* let response = null; let confidence = 0.85; let topic = 'General';
InitialResult == [response |-> Null, confidence |-> 85, topic |-> "General"]

\* a variant: if (bestScore > 1 && bestMatch): a single word hit is not enough
PrimaryStage_AboveOne(lowerQuery, res) ==
    LET Accept(best) ==
            IF best.bestScore > 1 /\ best.bestMatch # 0
            THEN [response |-> knowledgeStore[best.bestMatch].answer,
                  confidence |-> knowledgeStore[best.bestMatch].confidence,
                  topic |-> knowledgeStore[best.bestMatch].topic]
            ELSE res
    IN Then(MatchLoop(lowerQuery, 1, 0, 0), Accept)

\* if (bestScore >= 1 && bestMatch) { ... }
PrimaryStage(lowerQuery, res) ==
    LET Accept(best) ==
            IF best.bestScore >= 1 /\ best.bestMatch # 0
            THEN [response |-> knowledgeStore[best.bestMatch].answer,
                  confidence |-> knowledgeStore[best.bestMatch].confidence,
                  topic |-> knowledgeStore[best.bestMatch].topic]
            ELSE res
    IN Then(MatchLoop(lowerQuery, 1, 0, 0), Accept)

\* a variant: the loop without its break: the last keyword found decides
RECURSIVE ExtendedLoop_Last(_, _, _)
ExtendedLoop_Last(lowerQuery, i, res) ==
    IF i > Len(extendedTopics) THEN res
    ELSE ExtendedLoop_Last(lowerQuery, i + 1,
             IF Includes(lowerQuery, extendedTopics[i].kw)
             THEN [response |-> extendedTopics[i].text,
                   confidence |-> extendedTopics[i].conf,
                   topic |-> extendedTopics[i].top]
             ELSE res)

\* the for loop over Object.entries(extendedTopics) with its break
RECURSIVE ExtendedLoop(_, _, _)
ExtendedLoop(lowerQuery, i, res) ==
    IF i > Len(extendedTopics) THEN res
    ELSE IF Includes(lowerQuery, extendedTopics[i].kw)
         THEN [response |-> extendedTopics[i].text,
               confidence |-> extendedTopics[i].conf,
               topic |-> extendedTopics[i].top]
         ELSE ExtendedLoop(lowerQuery, i + 1, res)

\* a variant: the extended table consulted whatever the primary matcher found
ExtendedStage_Always(lowerQuery, res) == ExtendedLoop(lowerQuery, 1, res)

\* if (!response) { ... }
ExtendedStage(lowerQuery, res) ==
    IF res.response = Null THEN ExtendedLoop(lowerQuery, 1, res) ELSE res

IsGreeting(lowerQuery) == TestAnchoredWord(lowerQuery, GreetingAlternatives)

IsThanks(lowerQuery) == TestAnywhere(lowerQuery, ThanksAlternatives)

IsIdentity(lowerQuery) == TestAnywhere(lowerQuery, IdentityAlternatives)

GreetingStage(lowerQuery, res) ==
    IF IsGreeting(lowerQuery)
    THEN [response |-> GreetingAnswer, confidence |-> 98, topic |-> "General"]
    ELSE res

\* a variant: thanks answered only when nothing else was found
ThanksStage_OnlyIfUnanswered(lowerQuery, res) ==
    IF IsThanks(lowerQuery) /\ res.response = Null
    THEN [response |-> ThanksAnswer, confidence |-> 98, topic |-> "General"]
    ELSE res

ThanksStage(lowerQuery, res) ==
    IF IsThanks(lowerQuery)
    THEN [response |-> ThanksAnswer, confidence |-> 98, topic |-> "General"]
    ELSE res

IdentityStage(lowerQuery, res) ==
    IF IsIdentity(lowerQuery)
    THEN [response |-> IdentityAnswer, confidence |-> 98, topic |-> "General"]
    ELSE res

\* a variant: a fallback that is never built: the promise resolves with answer null
FallbackStage_Skipped(res, r) == res

\* a variant: a fallback that forgets to set the confidence
FallbackStage_KeepsConfidence(res, r) ==
    IF res.response = Null
    THEN [response |-> FallbackAnswer(suggestions[RandomIndex(r, Len(suggestions))]),
          confidence |-> res.confidence,
          topic |-> res.topic]
    ELSE res

\* a variant: a fallback that labels the response with the suggestion it picked
FallbackStage_TopicOfPick(res, r) ==
    IF res.response = Null
    THEN [response |-> FallbackAnswer(suggestions[RandomIndex(r, Len(suggestions))]),
          confidence |-> 65,
          topic |-> suggestions[RandomIndex(r, Len(suggestions))]]
    ELSE res

\* a variant: the fallback built whatever the stages before it found
FallbackStage_Always(res, r) ==
    [response |-> FallbackAnswer(suggestions[RandomIndex(r, Len(suggestions))]),
     confidence |-> 65,
     topic |-> res.topic]

\* if (!response) { pick = suggestions[Math.floor(Math.random() * 6)]; ... }
FallbackStage(res, r) ==
    IF res.response = Null
    THEN [response |-> FallbackAnswer(suggestions[RandomIndex(r, Len(suggestions))]),
          confidence |-> 65,
          topic |-> res.topic]
    ELSE res

\* a variant: the overrides checked in the order identity, thanks, greeting
TimerCallback_OverridesReversed(lowerQuery, r) ==
    LET Primary(res) == PrimaryStage(lowerQuery, res)
        Extended(res) == ExtendedStage(lowerQuery, res)
        Greeting(res) == GreetingStage(lowerQuery, res)
        Thanks(res) == ThanksStage(lowerQuery, res)
        Identity(res) == IdentityStage(lowerQuery, res)
        Fallback(res) == FallbackStage(res, r)
        Resolve(res) == [answer |-> res.response, confidence |-> res.confidence,
                         topic |-> res.topic, isLocal |-> TRUE]
    IN Then(Then(Then(Then(Then(Then(Then(InitialResult,
            Primary), Extended), Identity), Thanks), Greeting), Fallback), Resolve)

\* the callback given to setTimeout, up to the value handed to resolve;
\* r is the value Math.random() returns if the fallback draws one
TimerCallback(lowerQuery, r) ==
    LET Primary(res) == PrimaryStage(lowerQuery, res)
        Extended(res) == ExtendedStage(lowerQuery, res)
        Greeting(res) == GreetingStage(lowerQuery, res)
        Thanks(res) == ThanksStage(lowerQuery, res)
        Identity(res) == IdentityStage(lowerQuery, res)
        Fallback(res) == FallbackStage(res, r)
        Resolve(res) == [answer |-> res.response, confidence |-> res.confidence,
                         topic |-> res.topic, isLocal |-> TRUE]
    IN Then(Then(Then(Then(Then(Then(Then(InitialResult,
            Primary), Extended), Greeting), Thanks), Identity), Fallback), Resolve)

-----------------------------------------------------------------------------
(* Values shared by the pages *)

\* a field an object does not have
Undefined == "undefined"

RemoveAt(seq, i) == SubSeq(seq, 1, i - 1) \o SubSeq(seq, i + 1, Len(seq))

\* !!value of a string or of undefined
Truthy(value) == value # Undefined /\ value # ""

-----------------------------------------------------------------------------
(* The quiz page *)

\* the server sends a quiz of at most MaxQuestions questions
MaxQuestions == 3

\* the answers a question offers
Options == {"true", "false"}

\* the object quizApi.generate resolves to: a quiz of n questions
QuizData(n) == [quiz_id |-> "quiz", questions |-> [i \in 1..n |-> "question"]]

\* the object quizApi.submit resolves to
ResultsData(quiz) == [total |-> Len(quiz.questions)]

\* {}: no answer given
NoAnswers == [i \in {} |-> ""]

\* the hooks of QuizPage; the mount effect has called loadCourse
QuizPageInit ==
    [course |-> <<>>, quiz |-> <<>>, currentIndex |-> 0, answers |-> NoAnswers,
     submitted |-> FALSE, results |-> <<>>, loading |-> TRUE,
     submitting |-> FALSE, request |-> "getById"]

\* what the page renders: the loading screen, the quiz selection screen, the
\* results screen or the quiz in progress; rendering a quiz without a
\* question reads a field of undefined and throws
Screen ==
    IF quizPage.loading THEN "loading"
    ELSE IF quizPage.quiz = <<>> THEN "start"
    ELSE IF quizPage.submitted /\ quizPage.results # <<>> THEN "results"
    ELSE IF Len(quizPage.quiz[1].questions) = 0 THEN "thrown"
    ELSE "quiz"

\* loadCourse after its await
LoadCourseSettled ==
    /\ quizPage.request = "getById"
    /\ \E data \in {<<>>, <<"course">>} :
          quizPage' = [quizPage EXCEPT !.course = data, !.loading = FALSE,
                                        !.request = "none"]
    /\ UNCHANGED <<askPage, session>>

\* startQuiz up to its await: the buttons of the selection screen and Try Again
StartQuiz ==
    /\ Screen \in {"start", "results"}
    /\ quizPage.request = "none"
    /\ quizPage' = [quizPage EXCEPT !.loading = TRUE, !.request = "generate"]
    /\ UNCHANGED <<askPage, session>>

\* a variant: the try block of startQuiz without setCurrentIndex(0)
QuizGenerated_KeepsIndex(page, data) ==
    [page EXCEPT !.quiz = <<data>>, !.answers = NoAnswers,
                 !.submitted = FALSE, !.results = <<>>]

\* the try block of startQuiz after its await
QuizGenerated(page, data) ==
    [page EXCEPT !.quiz = <<data>>, !.currentIndex = 0, !.answers = NoAnswers,
                 !.submitted = FALSE, !.results = <<>>]

\* startQuiz after its await: try or catch, then finally
GenerateSettled ==
    /\ quizPage.request = "generate"
    /\ \/ \E n \in 0..MaxQuestions :
             quizPage' = [QuizGenerated(quizPage, QuizData(n))
                             EXCEPT !.loading = FALSE, !.request = "none"]
       \/ quizPage' = [quizPage EXCEPT !.loading = FALSE, !.request = "none"]
    /\ UNCHANGED <<askPage, session>>

\* handleAnswer
HandleAnswer ==
    /\ Screen = "quiz"
    /\ \E answer \in Options :
          quizPage' = [quizPage EXCEPT !.answers =
              [i \in DOMAIN quizPage.answers \cup {quizPage.currentIndex} |->
                  IF i = quizPage.currentIndex THEN answer ELSE quizPage.answers[i]]]
    /\ UNCHANGED <<askPage, session>>

\* the index handleNext sets
NextIndex(currentIndex, quiz) ==
    IF currentIndex < Len(quiz.questions) - 1 THEN currentIndex + 1 ELSE currentIndex

\* the index handlePrev sets
PrevIndex(currentIndex) ==
    IF currentIndex > 0 THEN currentIndex - 1 ELSE currentIndex

\* handleNext
HandleNext ==
    /\ Screen = "quiz"
    /\ quizPage' = [quizPage EXCEPT
                       !.currentIndex = NextIndex(quizPage.currentIndex, quizPage.quiz[1])]
    /\ UNCHANGED <<askPage, session>>

\* handlePrev
HandlePrev ==
    /\ Screen = "quiz"
    /\ quizPage' = [quizPage EXCEPT !.currentIndex = PrevIndex(quizPage.currentIndex)]
    /\ UNCHANGED <<askPage, session>>

\* a navigation dot: one per question
NavDot ==
    /\ Screen = "quiz"
    /\ \E idx \in 0..(Len(quizPage.quiz[1].questions) - 1) :
          quizPage' = [quizPage EXCEPT !.currentIndex = idx]
    /\ UNCHANGED <<askPage, session>>

\* handleSubmit of the quiz up to its await: the button of the last question
SubmitQuiz ==
    /\ Screen = "quiz"
    /\ quizPage.currentIndex = Len(quizPage.quiz[1].questions) - 1
    /\ ~quizPage.submitting
    /\ quizPage' = [quizPage EXCEPT !.submitting = TRUE, !.request = "submit"]
    /\ UNCHANGED <<askPage, session>>

\* handleSubmit of the quiz after its await: try or catch, then finally
SubmitSettled ==
    /\ quizPage.request = "submit"
    /\ \/ quizPage' = [quizPage EXCEPT !.results = <<ResultsData(quizPage.quiz[1])>>,
                                        !.submitted = TRUE, !.submitting = FALSE,
                                        !.request = "none"]
       \/ quizPage' = [quizPage EXCEPT !.submitting = FALSE, !.request = "none"]
    /\ UNCHANGED <<askPage, session>>

QuizNext ==
    \/ LoadCourseSettled
    \/ StartQuiz
    \/ GenerateSettled
    \/ HandleAnswer
    \/ HandleNext
    \/ HandlePrev
    \/ NavDot
    \/ SubmitQuiz
    \/ SubmitSettled

-----------------------------------------------------------------------------
(* The session: services/api and the ProtectedRoute of App *)

\* at most MaxRequests fetch calls are in flight
MaxRequests == 2

\* obj[key]
Get(obj, key) ==
    IF \E i \in 1..Len(obj) : obj[i][1] = key
    THEN obj[CHOOSE i \in 1..Len(obj) : obj[i][1] = key][2]
    ELSE Undefined

\* { ...obj, [key]: value }
Assign(obj, key, value) ==
    IF \E i \in 1..Len(obj) : obj[i][1] = key
    THEN LET i == CHOOSE j \in 1..Len(obj) : obj[j][1] = key
         IN SubSeq(obj, 1, i - 1) \o << <<key, value>> >> \o SubSeq(obj, i + 1, Len(obj))
    ELSE Append(obj, <<key, value>>)

\* JSON.stringify of an object of strings: a property that is undefined is
\* left out; the text is held as the pairs it lists
JSONStringify(obj) == SelectSeq(obj, LAMBDA pair : pair[2] # Undefined)

\* JSON.parse of such a text
JSONParse(text) == text

\* getAuthData: null or the stored object
getAuthData ==
    IF localStorage = <<>> THEN <<>> ELSE <<JSONParse(localStorage[1])>>

\* the item after setAuthData(data)
setAuthData(data) == <<JSONStringify(data)>>

\* a variant: the item is not removed
clearAuthData_Keeps == localStorage

\* the item after clearAuthData()
clearAuthData == <<>>

\* getApiKey: auth?.api_key
getApiKey ==
    IF getAuthData = <<>> THEN Undefined ELSE Get(getAuthData[1], "api_key")

\* authApi.isAuthenticated
isAuthenticated == Truthy(getApiKey)

\* ProtectedRoute: what is shown for a protected path
ProtectedRoute(path) == IF ~isAuthenticated THEN "/login" ELSE path

-----------------------------------------------------------------------------
(* The login page *)

Names == { <<>>, <<"a","n","n">> }
Emails == { <<>>, <<"a","@","b",".","c">> }
Passwords == { <<>>, <<"a","b","c">>, <<"a","b","c","d","e","f">> }

\* the values typed into the field of a name
FieldValues(name) ==
    IF name = "name" THEN Names
    ELSE IF name = "email" THEN Emails
    ELSE Passwords

\* the hooks of LoginPage
LoginPageInit ==
    [isLogin |-> TRUE, showForgotPassword |-> FALSE, loading |-> FALSE,
     error |-> "", success |-> "",
     formData |-> [name |-> <<>>, email |-> <<>>, password |-> <<>>,
                   confirmPassword |-> <<>>]]

\* a response of the backend has arrived and its continuation has not run yet
Settled == \E i \in 1..Len(requests) : requests[i].response # <<>>

\* handleChange; the name and confirmPassword inputs are rendered for sign up
HandleChange ==
    /\ location = "/login"
    /\ ~Settled
    /\ \E name \in IF loginPage.isLogin THEN {"email", "password"}
                   ELSE {"name", "email", "password", "confirmPassword"} :
          \E value \in FieldValues(name) :
              loginPage' = [loginPage EXCEPT !.formData[name] = value,
                                             !.error = "", !.success = ""]
    /\ UNCHANGED <<askPage, quizPage, localStorage, location, requests>>

\* switchMode
SwitchMode ==
    /\ location = "/login"
    /\ ~Settled
    /\ loginPage' = [loginPage EXCEPT !.isLogin = ~loginPage.isLogin, !.error = "",
                                      !.success = "", !.showForgotPassword = FALSE]
    /\ UNCHANGED <<askPage, quizPage, localStorage, location, requests>>

\* handleForgotPassword; the link is rendered for sign in
HandleForgotPassword ==
    /\ location = "/login"
    /\ ~Settled
    /\ loginPage.isLogin
    /\ loginPage' =
          IF loginPage.formData.email = <<>>
          THEN [loginPage EXCEPT !.error = "Please enter your email address first"]
          ELSE [loginPage EXCEPT !.showForgotPassword = TRUE,
                                 !.success = "Password reset link sent", !.error = ""]
    /\ UNCHANGED <<askPage, quizPage, localStorage, location, requests>>

\* a variant: the length of the password is not looked at
ValidationError_AnyLength(formData, isLogin) ==
    IF formData.email = <<>> \/ formData.password = <<>>
    THEN "Please enter email and password"
    ELSE IF ~isLogin /\ formData.name = <<>> THEN "Please enter your name"
    ELSE IF ~isLogin /\ formData.password # formData.confirmPassword
    THEN "Passwords do not match"
    ELSE ""

\* the checks of handleSubmit before setLoading(true): the error they set,
\* '' when they pass
ValidationError(formData, isLogin) ==
    IF formData.email = <<>> \/ formData.password = <<>>
    THEN "Please enter email and password"
    ELSE IF ~isLogin /\ formData.name = <<>> THEN "Please enter your name"
    ELSE IF ~isLogin /\ formData.password # formData.confirmPassword
    THEN "Passwords do not match"
    ELSE IF ~isLogin /\ Len(formData.password) < 6
    THEN "Password must be at least 6 characters"
    ELSE ""

\* the fetch call of authApi.login or authApi.register
AuthRequest(formData, isLogin) ==
    IF isLogin
    THEN [api |-> "login", response |-> <<>>,
          body |-> << <<"email", formData.email>>, <<"password", formData.password>> >>]
    ELSE [api |-> "register", response |-> <<>>,
          body |-> << <<"name", formData.name>>, <<"email", formData.email>>,
                      <<"password", formData.password>> >>]

\* handleSubmit of the login page up to its await; the submit button is
\* disabled while loading.  (The browser holds back the submit event of a form
\* whose required email or password is empty; the handler checks them anyway.)
LoginSubmit ==
    /\ location = "/login"
    /\ ~Settled
    /\ ~loginPage.loading
    /\ IF ValidationError(loginPage.formData, loginPage.isLogin) # ""
       THEN /\ loginPage' = [loginPage EXCEPT !.error =
                                ValidationError(loginPage.formData, loginPage.isLogin)]
            /\ UNCHANGED requests
       ELSE /\ Len(requests) < MaxRequests
            /\ loginPage' = [loginPage EXCEPT !.loading = TRUE, !.error = ""]
            /\ requests' = Append(requests,
                                  AuthRequest(loginPage.formData, loginPage.isLogin))
    /\ UNCHANGED <<askPage, quizPage, localStorage, location>>

\* what the backend answers to a sign in or sign up: the user and a key, or an
\* error with or without a text; status 0 stands for a fetch that failed
AuthResponses(request) ==
    { [status |-> 200, ok |-> TRUE,
       data |-> << <<"user", << <<"email", Get(request.body, "email")>> >> >>,
                   <<"api_key", "key">> >>],
      [status |-> 401, ok |-> FALSE, data |-> << <<"error", "Invalid credentials">> >>],
      [status |-> 500, ok |-> FALSE, data |-> <<>>],
      [status |-> 0, ok |-> FALSE, data |-> <<>>] }

\* what the backend answers to a request made with fetchWithAuth
ApiResponses ==
    { [status |-> 200, ok |-> TRUE, data |-> <<>>],
      [status |-> 401, ok |-> FALSE, data |-> <<>>],
      [status |-> 0, ok |-> FALSE, data |-> <<>>] }

\* the fetch of a request settles
ResponseArrives(i) ==
    /\ ~Settled
    /\ \E response \in IF requests[i].api = "fetchWithAuth" THEN ApiResponses
                       ELSE AuthResponses(requests[i]) :
          requests' = [requests EXCEPT ![i].response = <<response>>]
    /\ UNCHANGED <<askPage, quizPage, loginPage, localStorage, location>>

\* the item after authApi.login or authApi.register got its response
AuthDataAfter(response) ==
    IF response.ok
    THEN setAuthData(Assign(Get(response.data, "user"), "api_key",
                            Get(response.data, "api_key")))
    ELSE localStorage

\* the login page after the await of handleSubmit: try or catch, then finally
LoginPageAfter(response) ==
    IF response.status = 0
    THEN [loginPage EXCEPT !.error = "Connection error. Please check your network.",
                           !.loading = FALSE]
    ELSE IF response.ok
    THEN [loginPage EXCEPT !.loading = FALSE]
    ELSE [loginPage EXCEPT !.loading = FALSE, !.error =
             IF Truthy(Get(response.data, "error")) THEN Get(response.data, "error")
             ELSE "Authentication failed. Please try again."]

\* authApi.login or authApi.register after its fetch, and handleSubmit of the
\* login page after its await
AuthSettled(i) ==
    /\ requests[i].api # "fetchWithAuth"
    /\ requests[i].response # <<>>
    /\ localStorage' = (IF requests[i].response[1].status = 0 THEN localStorage
                        ELSE AuthDataAfter(requests[i].response[1]))
    /\ loginPage' = LoginPageAfter(requests[i].response[1])
    /\ location' = (IF requests[i].response[1].ok THEN "/" ELSE location)
    /\ requests' = RemoveAt(requests, i)
    /\ UNCHANGED <<askPage, quizPage>>

\* fetchWithAuth up to its await, called by a page behind ProtectedRoute
FetchWithAuth ==
    /\ location = "/"
    /\ ~Settled
    /\ Len(requests) < MaxRequests
    /\ requests' = Append(requests, [api |-> "fetchWithAuth", response |-> <<>>,
                                     body |-> << <<"X-API-Key", getApiKey>> >>])
    /\ UNCHANGED <<askPage, quizPage, loginPage, localStorage, location>>

\* fetchWithAuth after its await: status 401 clears the auth data and loads
\* /login, which ends every script of the page
FetchSettled(i) ==
    /\ requests[i].api = "fetchWithAuth"
    /\ requests[i].response # <<>>
    /\ IF requests[i].response[1].status = 401
       THEN /\ localStorage' = clearAuthData
            /\ location' = "/login"
            /\ loginPage' = LoginPageInit
            /\ requests' = <<>>
       ELSE /\ requests' = RemoveAt(requests, i)
            /\ UNCHANGED <<loginPage, localStorage, location>>
    /\ UNCHANGED <<askPage, quizPage>>

\* handleLogout of the Navbar: authApi.logout and navigate('/login')
Logout ==
    /\ location = "/"
    /\ ~Settled
    /\ localStorage' = clearAuthData
    /\ location' = "/login"
    /\ loginPage' = LoginPageInit
    /\ UNCHANGED <<askPage, quizPage, requests>>

\* the address of a protected page is opened: the app is loaded and
\* ProtectedRoute renders
OpenHome ==
    /\ ~Settled
    /\ location' = ProtectedRoute("/")
    /\ loginPage' = LoginPageInit
    /\ requests' = <<>>
    /\ UNCHANGED <<askPage, quizPage, localStorage>>

SessionNext ==
    \/ HandleChange
    \/ SwitchMode
    \/ HandleForgotPassword
    \/ LoginSubmit
    \/ \E i \in 1..Len(requests) : ResponseArrives(i)
    \/ \E i \in 1..Len(requests) : AuthSettled(i)
    \/ FetchWithAuth
    \/ \E i \in 1..Len(requests) : FetchSettled(i)
    \/ Logout
    \/ OpenHome

-----------------------------------------------------------------------------
(* One page at a time *)

\* the Ask page is not mounted
AskPageIdle ==
    /\ query = <<>>
    /\ uploadedFiles = <<>>
    /\ loading = FALSE
    /\ messages = <<>>
    /\ calls = <<>>
    /\ knowledgeStore = knowledgeBase

\* the quiz page is not mounted
QuizPageIdle == quizPage = QuizPageInit

\* signed in, on a page behind ProtectedRoute, no request in flight
SessionIdle ==
    /\ loginPage = LoginPageInit
    /\ localStorage = setAuthData(<< <<"email", <<"a","@","b",".","c">>>>, <<"api_key", "key">> >>)
    /\ location = "/"
    /\ requests = <<>>

\* what the Ask page starts from
OtherPagesIdle == QuizPageIdle /\ SessionIdle

\* the quiz page of a course is opened
QuizInit == AskPageIdle /\ quizPage = QuizPageInit /\ SessionIdle

QuizSpec == QuizInit /\ [][QuizNext]_vars

\* the app is opened without stored auth data
SessionInit ==
    /\ AskPageIdle
    /\ QuizPageIdle
    /\ loginPage = LoginPageInit
    /\ localStorage = <<>>
    /\ location = "/login"
    /\ requests = <<>>

SessionSpec == SessionInit /\ [][SessionNext]_vars

-----------------------------------------------------------------------------
(* The Ask page: messages and files *)

\* the same, in a field that holds a number when it is there
UndefinedNumber == 0 - 1

Message(type, content) ==
    [type |-> type, content |-> content, files |-> <<>>,
     confidence |-> UndefinedNumber, topic |-> Undefined, isError |-> FALSE]

\* the message the mount effect sets
WelcomeMessage == Message("ai", <<"Hey there! I'm Study Pilot AI, your friendly learning buddy!">>)

\* the message clearChat sets
ClearedMessage == Message("ai", <<"Chat cleared! What would you like to learn about now?">>)

\* the message of the catch branch of handleSubmit
ErrorMessage ==
    [Message("ai", <<"Hmm, something unexpected happened! Could you rephrase your question?">>)
        EXCEPT !.isError = TRUE]

\* the files a file dialog can hand to handleFileUpload
FileSelections == {
    << [name |-> "notes.pdf", type |-> "application/pdf"] >>,
    << [name |-> "photo.png", type |-> "image/png"] >>,
    << [name |-> "photo.png", type |-> "image/png"],
       [name |-> "notes.pdf", type |-> "application/pdf"] >> }

ValidTypes == { "application/pdf",
                "application/vnd.openxmlformats-officedocument.presentationml.presentation",
                "text/plain" }

\* Array.prototype.filter
Filter(seq, Keep(_)) == SelectSeq(seq, Keep)

\* a variant: slice(0, n): the oldest n elements
SliceLast_First(seq, n) ==
    IF Len(seq) <= n THEN seq ELSE SubSeq(seq, 1, n)

\* Array.prototype.slice(-n)
SliceLast(seq, n) ==
    IF Len(seq) <= n THEN seq ELSE SubSeq(seq, Len(seq) - n + 1, Len(seq))

FileNames(files) == [i \in 1..Len(files) |-> files[i].name]

\* currentMessages.filter(user or ai).slice(-10).map(m => ({type, content}))
ConversationHistory(currentMessages) ==
    LET IsChat(m) == m.type = "user" \/ m.type = "ai"
        last == SliceLast(Filter(currentMessages, IsChat), 10)
    IN [i \in 1..Len(last) |-> [type |-> last[i].type, content |-> last[i].content]]

-----------------------------------------------------------------------------
(* The calls in flight *)

\* data before the promise is settled
NoData == [answer |-> Null, confidence |-> UndefinedNumber, topic |-> Undefined, isLocal |-> FALSE]

\* the continuation of an await runs as a microtask, before any other event
\* handler or timer: a settled promise is consumed first
MicrotaskQueued == \E i \in 1..Len(calls) : calls[i].state # "pending"

\* a variant: one timer at a time: the clock runs to the timer of the oldest call
NextTimerDue_OfOldestCall == calls[1].thinkingTime - calls[1].elapsed

\* the time left until the earliest timer is due
NextTimerDue ==
    LET left == { calls[i].thinkingTime - calls[i].elapsed : i \in 1..Len(calls) }
    IN CHOOSE d \in left : \A e \in left : d <= e

\* a variant: a callback that writes through bestMatch: the confidence of
\* the entry it returns is raised for the next time
StoreAfterCallback_Reinforces(lowerQuery) ==
    LET best == MatchLoop(lowerQuery, 1, 0, 0)
    IN IF best.bestScore >= 1 /\ best.bestMatch # 0
       THEN [knowledgeStore EXCEPT ![best.bestMatch].confidence = 99]
       ELSE knowledgeStore

\* the table after the callback has run: the callback reads knowledgeBase and
\* bestMatch and assigns to neither
StoreAfterCallback(lowerQuery) == knowledgeStore

\* a variant: an engine that reads conversationHistory: a question found in
\* the history before its last entry is not answered a second time
Settle_HistoryAware(call, r) ==
    IF \E k \in 1..(Len(call.history) - 1) :
           call.history[k].type = "user" /\ call.history[k].content = call.query
    THEN [call EXCEPT !.state = "fulfilled",
                      !.data = [answer |-> <<"You asked that before.">>, confidence |-> 85,
                                topic |-> "General", isLocal |-> TRUE]]
    ELSE [call EXCEPT !.state = "fulfilled", !.data = TimerCallback(call.lowerQuery, r)]

\* a variant: an engine that rejects the promise of a query without text
Settle_RejectsBlank(call, r) ==
    IF call.lowerQuery = <<>>
    THEN [call EXCEPT !.state = "rejected"]
    ELSE [call EXCEPT !.state = "fulfilled", !.data = TimerCallback(call.lowerQuery, r)]

\* new Promise((resolve) => { setTimeout(..., thinkingTime) }): the executor
\* holds resolve only; the callback ends with resolve({answer, ...})
Settle(call, r) ==
    [call EXCEPT !.state = "fulfilled", !.data = TimerCallback(call.lowerQuery, r)]

\* a variant: a composer that leaves the fallback text without prefix and
\* suffix and shows its confidence as 0
AiMessage_BareFallback(data, r1, r2) ==
    IF data.confidence = 65
    THEN [Message("ai", data.answer) EXCEPT !.confidence = 0, !.topic = data.topic]
    ELSE [Message("ai", <<friendlyPrefixes[RandomIndex(r1, Len(friendlyPrefixes))]>>
                          \o data.answer
                          \o <<friendlySuffixes[RandomIndex(r2, Len(friendlySuffixes))]>>)
            EXCEPT !.confidence = data.confidence, !.topic = data.topic]

\* the message handleSubmit builds from the awaited data
AiMessage(data, r1, r2) ==
    LET prefix == friendlyPrefixes[RandomIndex(r1, Len(friendlyPrefixes))]
        suffix == friendlySuffixes[RandomIndex(r2, Len(friendlySuffixes))]
    IN [Message("ai", <<prefix>> \o data.answer \o <<suffix>>)
            EXCEPT !.confidence = data.confidence, !.topic = data.topic]

-----------------------------------------------------------------------------
(* Initial state: the page after mounting *)

Init ==
    /\ query = <<>>
    /\ uploadedFiles = <<>>
    /\ loading = FALSE
    /\ messages = <<WelcomeMessage>>
    /\ calls = <<>>
    /\ knowledgeStore = knowledgeBase
    /\ OtherPagesIdle

-----------------------------------------------------------------------------
(* Actions *)

\* the messages the conversation can still take under the bound cap, one
\* place kept for the answer of every call in flight
Room(cap) == cap - Len(messages) - Len(calls)

\* onChange of the chat input (or handleQuickQuery): setQuery(text);
\* typing is modelled while the conversation can still take a question
SetQuery(Q, cap) ==
    /\ ~MicrotaskQueued
    /\ Room(cap) >= 2
    /\ \E q \in Q : q # query /\ query' = q
    /\ UNCHANGED <<uploadedFiles, loading, messages, calls, knowledgeStore, otherPages>>

\* handleFileUpload with the files of the dialog
HandleFileUpload(cap) ==
    /\ ~MicrotaskQueued
    /\ Room(cap) >= 1
    /\ \E files \in FileSelections :
        LET IsValid(f) == f.type \in ValidTypes
            validFiles == Filter(files, IsValid)
        IN /\ Len(uploadedFiles) + Len(validFiles) <= MaxFiles
           /\ IF Len(validFiles) > 0
              THEN /\ uploadedFiles' = uploadedFiles \o validFiles
                   /\ messages' = Append(messages,
                          Message("system", <<"Uploaded: ">> \o FileNames(validFiles)))
              ELSE UNCHANGED <<uploadedFiles, messages>>
    /\ UNCHANGED <<query, loading, calls, knowledgeStore, otherPages>>

\* removeFile(index)
RemoveFile ==
    /\ ~MicrotaskQueued
    /\ \E index \in 1..Len(uploadedFiles) : uploadedFiles' = RemoveAt(uploadedFiles, index)
    /\ UNCHANGED <<query, loading, messages, calls, knowledgeStore, otherPages>>

\* clearChat, with the answer of window.confirm
ClearChat ==
    /\ ~MicrotaskQueued
    /\ \E confirmed \in BOOLEAN :
        IF confirmed THEN messages' = <<ClearedMessage>> ELSE UNCHANGED messages
    /\ UNCHANGED <<query, uploadedFiles, loading, calls, knowledgeStore, otherPages>>

\* the send button is disabled while loading or when there is nothing to send
SendDisabled == loading \/ (Trim(query) = <<>> /\ Len(uploadedFiles) = 0)

\* handleSubmit up to its await, for a submit event of the form; the handler
\* itself does not look at loading
SubmitEvent(cap) ==
    /\ ~MicrotaskQueued
    /\ ~(Trim(query) = <<>> /\ Len(uploadedFiles) = 0)
    /\ Room(cap) >= 2
    /\ LET userMessage == [Message("user", query) EXCEPT !.files = FileNames(uploadedFiles)]
           currentMessages == Append(messages, userMessage)
           savedQuery == query
       IN /\ messages' = currentMessages
          /\ loading' = TRUE
          /\ query' = <<>>
          /\ uploadedFiles' = <<>>
          /\ \E r \in RandomValues :
                calls' = Append(calls,
                    [query |-> savedQuery,
                     history |-> ConversationHistory(currentMessages),
                     lowerQuery |-> LowerQuery(savedQuery),
                     thinkingTime |-> ThinkingTime(r),
                     elapsed |-> 0,
                     state |-> "pending",
                     data |-> NoData])
          /\ UNCHANGED <<knowledgeStore, otherPages>>

\* the form is submitted through the send button
HandleSubmit(cap) == ~SendDisabled /\ SubmitEvent(cap)

\* half the distance of two neighbouring delays
TimeStep == (1200 \div RandomSteps) \div 2

\* time passes, less than any timer needs
Wait ==
    /\ ~MicrotaskQueued
    /\ calls # <<>>
    /\ TimeStep < NextTimerDue
    /\ calls' = [i \in 1..Len(calls) |->
                    [calls[i] EXCEPT !.elapsed = calls[i].elapsed + TimeStep]]
    /\ UNCHANGED <<query, uploadedFiles, loading, messages, knowledgeStore, otherPages>>

\* time passes until the earliest timer is due
Tick ==
    /\ ~MicrotaskQueued
    /\ calls # <<>>
    /\ NextTimerDue > 0
    /\ calls' = [i \in 1..Len(calls) |->
                    [calls[i] EXCEPT !.elapsed = calls[i].elapsed + NextTimerDue]]
    /\ UNCHANGED <<query, uploadedFiles, loading, messages, knowledgeStore, otherPages>>

\* a variant: the callback run at once, without a timer: matching before the delay
TimerFires_AtOnce(i) ==
    /\ ~MicrotaskQueued
    /\ calls[i].state = "pending"
    /\ \E r \in RandomValues : calls' = [calls EXCEPT ![i] = Settle(calls[i], r)]
    /\ knowledgeStore' = StoreAfterCallback(calls[i].lowerQuery)
    /\ UNCHANGED <<query, uploadedFiles, loading, messages, otherPages>>

\* the timer of call i fires: the callback runs and resolves the promise
TimerFires(i) ==
    /\ ~MicrotaskQueued
    /\ calls[i].state = "pending"
    /\ calls[i].elapsed >= calls[i].thinkingTime
    /\ \E r \in RandomValues : calls' = [calls EXCEPT ![i] = Settle(calls[i], r)]
    /\ knowledgeStore' = StoreAfterCallback(calls[i].lowerQuery)
    /\ UNCHANGED <<query, uploadedFiles, loading, messages, otherPages>>

\* a variant: the finally block does not run
Deliver_KeepsLoading(i) ==
    /\ calls[i].state # "pending"
    /\ IF calls[i].state = "fulfilled"
       THEN \E r1, r2 \in RandomValues :
                messages' = Append(messages, AiMessage(calls[i].data, r1, r2))
       ELSE messages' = Append(messages, ErrorMessage)
    /\ calls' = RemoveAt(calls, i)
    /\ UNCHANGED <<query, uploadedFiles, loading, knowledgeStore, otherPages>>

\* handleSubmit after its await: try (fulfilled) or catch (rejected), then finally
Deliver(i) ==
    /\ calls[i].state # "pending"
    /\ IF calls[i].state = "fulfilled"
       THEN \E r1, r2 \in RandomValues :
                messages' = Append(messages, AiMessage(calls[i].data, r1, r2))
       ELSE messages' = Append(messages, ErrorMessage)
    /\ loading' = FALSE
    /\ calls' = RemoveAt(calls, i)
    /\ UNCHANGED <<query, uploadedFiles, knowledgeStore, otherPages>>

-----------------------------------------------------------------------------
(* The queries *)

\* what is typed into the chat input of the page
PageQueries == { <<>>, <<"s","t","a","c","k">> }

\* the fragments composed queries are made of
Vocabulary == { <<"h","a","s","h"," ","t","a","b","l","e">>, <<"w","h","a","t"," ","i","s">>, <<"s","o","r","t">>, <<"h","e","l","l","o">>, <<"t","h","x">>, <<"s","q","l">>, <<"x","y","z">> }

\* the queries of at most n fragments, joined by blanks
RECURSIVE Composed(_)
Composed(n) ==
    IF n <= 1 THEN Vocabulary
    ELSE Composed(n - 1) \cup { p \o <<" ">> \o w : p \in Composed(n - 1), w \in Vocabulary }

FixedQueries == {
    <<>>, <<" "," "," ">>, <<" ","\t"," ">>,
    <<"W","h","a","t"," ","i","s"," ","a"," ","H","a","s","h"," ","T","a","b","l","e","?">>,
    <<"q","u","i","c","k"," ","s","o","r","t"," ","a","l","g","o","r","i","t","h","m"," ","i","s"," ","q","u","i","c","k">>, <<"s","o","r","t"," ","t","h","e","n"," ","q","u","i","c","k"," ","i","t">>,
    <<"t","h","a","n","k","s"," ","s","o"," ","m","u","c","h","!">>, <<"p","u","r","p","l","e"," ","e","l","e","p","h","a","n","t"," ","q","u","a","n","t","u","m">>,
    <<"h","e","l","l","o">>, <<"h","e","y"," ","t","h","e","r","e">>, <<"H","i","!">>, <<"h","i","s","t","o","r","y">>, <<"s","u","p","p","e","r">>, <<"s","u","p">>,
    <<"g","o","o","d"," "," "," ","m","o","r","n","i","n","g">>, <<"g","o","o","d","m","o","r","n","i","n","g">>, <<"G","o","o","d"," ","e","v","e","n","i","n","g"," ","c","l","a","s","s">>,
    <<"b","i","n","a","r","y"," ","s","e","a","r","c","h"," ","t","r","e","e">>, <<" "," ","H","e","l","l","o"," ","b","i","n","a","r","y"," ","s","e","a","r","c","h"," ","t","r","e","e">>,
    <<"b","i","n","a","r","y"," ","s","e","a","r","c","h"," ","t","r","e","e"," ","q","u","i","c","k"," ","s","o","r","t">>, <<"s","t","a","c","k"," ","o","f"," ","f","i","r","s","t"," ","l","a","w"," ","t","h","e","r","m","o","d","y","n","a","m","i","c","s">>,
    <<"z","o","o">>, <<"a","r","r","a","y","s">>, <<"s","t","a","c","k","e","d">>, <<"S","T","A","C","K">>, <<"Q","u","i","c","k"," ","S","o","r","t">>,
    <<"w","h","o"," ","a","r","e"," ","y","o","u">>, <<"w","h","a","t"," ","r"," ","y","o","u">>, <<"w","h","a","t","a","r","e","y","o","u">>, <<"y","o","u","r"," ","n","a","m","e">>, <<"t","e","l","l"," ","m","e"," ","a","b","o","u","t"," "," ","y","o","u">>,
    <<"h","i"," ","w","h","o"," ","a","r","e"," ","y","o","u"," ","t","h","a","n","k","s">>, <<"I"," ","a","p","p","r","e","c","i","a","t","e"," ","t","h","e"," ","h","e","a","p">>,
    <<"b","i","n","a","r","y"," ","s","e","a","r","c","h">>, <<"b","f","s"," ","a","n","d"," ","d","f","s">>, <<"s","q","l"," ","a","r","r","a","y">>, <<"d","f","s">>, <<"p","o","i","n","t","e","r">>, <<"o","o","p">>, <<"c","o","m","p","l","e","x","i","t","y">>, <<"a","r","r","a","y">>, <<"s","q","l">>, <<"b","f","s">>,
    <<"e","x","p","l","a","i","n"," ","m","e","r","g","e"," ","s","o","r","t">>, <<"h","e","l","p"," ","m","e">>, <<"s","e","c","o","n","d"," ","l","a","w">>, <<"h","o","w"," ","d","o","e","s"," ","a"," ","q","u","e","u","e">>
    }

EngineQueries == FixedQueries \cup Composed(MaxWords)

-----------------------------------------------------------------------------
(* Specifications *)

\* the Ask page
Next ==
    \/ SetQuery(PageQueries, MaxMessages)
    \/ HandleFileUpload(MaxMessages)
    \/ RemoveFile
    \/ ClearChat
    \/ HandleSubmit(MaxMessages)
    \/ Tick
    \/ \E i \in 1..Len(calls) : TimerFires(i)
    \/ \E i \in 1..Len(calls) : Deliver(i)

Spec == Init /\ [][Next]_vars

\* time passes, due timers fire and queued continuations run
Fairness ==
    /\ WF_vars(Tick)
    /\ WF_vars(\E i \in 1..Len(calls) : TimerFires(i))
    /\ WF_vars(\E i \in 1..Len(calls) : Deliver(i))

\* one question of EngineQueries already typed into a freshly mounted page
EngineInit ==
    /\ query \in EngineQueries
    /\ uploadedFiles = <<>>
    /\ loading = FALSE
    /\ messages = <<WelcomeMessage>>
    /\ calls = <<>>
    /\ knowledgeStore = knowledgeBase
    /\ OtherPagesIdle

\* files are attached before the question is sent
EngineNext ==
    \/ HandleFileUpload(MaxMessages - 1)
    \/ HandleSubmit(MaxMessages)
    \/ Tick
    \/ \E i \in 1..Len(calls) : TimerFires(i)
    \/ \E i \in 1..Len(calls) : Deliver(i)

EngineSpec == EngineInit /\ [][EngineNext]_vars

\* the question of a conversation, asked a second time
AskAgain ==
    /\ ~MicrotaskQueued
    /\ ~loading
    /\ \E i \in 1..Len(messages) :
        /\ messages[i].type = "user"
        /\ messages[i].content # query
        /\ query' = messages[i].content
    /\ UNCHANGED <<uploadedFiles, loading, messages, calls, knowledgeStore, otherPages>>

\* one question of FixedQueries, asked twice in one conversation
RepeatInit ==
    /\ query \in FixedQueries
    /\ uploadedFiles = <<>>
    /\ loading = FALSE
    /\ messages = <<WelcomeMessage>>
    /\ calls = <<>>
    /\ knowledgeStore = knowledgeBase
    /\ OtherPagesIdle

RepeatNext ==
    \/ AskAgain
    \/ HandleSubmit(MaxMessages + 1)
    \/ Tick
    \/ \E i \in 1..Len(calls) : TimerFires(i)
    \/ \E i \in 1..Len(calls) : Deliver(i)

RepeatSpec == RepeatInit /\ [][RepeatNext]_vars

\* the page with submit events that do not come from the send button: several
\* calls of the engine in flight at once
ConcurrentNext ==
    \/ SetQuery(PageQueries, MaxMessages + 2)
    \/ SubmitEvent(MaxMessages + 2)
    \/ Wait
    \/ Tick
    \/ \E i \in 1..Len(calls) : TimerFires(i)
    \/ \E i \in 1..Len(calls) : Deliver(i)

ConcurrentSpec == Init /\ [][ConcurrentNext]_vars

\* one exchange of an earlier part of the conversation: the question "stack"
\* and the answer as it was delivered
PastExchange ==
    << Message("user", <<"s","t","a","c","k">>),
       AiMessage(TimerCallback(LowerQuery(<<"s","t","a","c","k">>), 0), 0, 0) >>

\* the conversation after k such exchanges
RECURSIVE PastConversation(_)
PastConversation(k) ==
    IF k = 0 THEN <<WelcomeMessage>> ELSE PastConversation(k - 1) \o PastExchange

\* the page with a long conversation behind it
LongInit ==
    /\ knowledgeStore = knowledgeBase
    /\ OtherPagesIdle
    /\ query = <<>>
    /\ uploadedFiles = <<>>
    /\ loading = FALSE
    /\ messages \in { PastConversation(k) : k \in (MaxPast - 1)..MaxPast }
    /\ calls = <<>>

LongNext ==
    \/ SetQuery(PageQueries, 2 * MaxPast + 4)
    \/ HandleFileUpload(2 * MaxPast + 4)
    \/ HandleSubmit(2 * MaxPast + 4)
    \/ Tick
    \/ \E i \in 1..Len(calls) : TimerFires(i)
    \/ \E i \in 1..Len(calls) : Deliver(i)

LongSpec == LongInit /\ [][LongNext]_vars

\* the engine alone on the questions of FixedQueries, with the scheduling of
\* the event loop
FairEngineSpec == RepeatInit /\ [][EngineNext]_vars /\ Fairness

-----------------------------------------------------------------------------
(* What the claims speak of *)

\* the calls whose promise is resolved and whose response is not yet consumed
Responses == { calls[i] : i \in { j \in 1..Len(calls) : calls[j].state = "fulfilled" } }

KeyWordsOf(K) == Split(knowledgeBase[K].key)

\* the normalized query q holds key K as a contiguous phrase
PhraseIn(K, q) == Includes(q, knowledgeBase[K].key)

\* the number of words of key K that occur in q
Overlap(K, q) ==
    Cardinality({ i \in 1..Len(KeyWordsOf(K)) : Includes(q, KeyWordsOf(K)[i]) })

\* the score the specification gives key K against q
Rank(K, q) == IF PhraseIn(K, q) THEN 3 * Len(KeyWordsOf(K)) ELSE Overlap(K, q)

Keys == 1..Len(knowledgeBase)

\* every key with its score against q, as pairs <<key, score>>
Ranks(q) == { <<K, Rank(K, q)>> : K \in Keys }

\* some override pattern matches q
Overridden(q) == IsGreeting(q) \/ IsThanks(q) \/ IsIdentity(q)

\* the response is the entry of key K
IsEntry(data, K) ==
    /\ data.answer = knowledgeBase[K].answer
    /\ data.confidence = knowledgeBase[K].confidence
    /\ data.topic = knowledgeBase[K].topic

\* the fixed fallback template with one of the six suggestions
IsFallbackText(answer) ==
    /\ Len(suggestions) = 6
    /\ \E i \in 1..Len(suggestions) : answer = FallbackAnswer(suggestions[i])

\* the words of a text: its maximal runs of word characters
RECURSIVE WordsFrom(_, _, _)
WordsFrom(s, i, word) ==
    IF i > Len(s) THEN (IF word = <<>> THEN {} ELSE {word})
    ELSE IF IsWordChar(s[i]) THEN WordsFrom(s, i + 1, Append(word, s[i]))
    ELSE (IF word = <<>> THEN {} ELSE {word}) \cup WordsFrom(s, i + 1, <<>>)

WordsOf(s) == WordsFrom(s, 1, <<>>)

\* the constituent words of the primary keys and of the extended keywords
TableWords ==
    UNION { WordsOf(knowledgeBase[K].key) : K \in Keys }
    \cup UNION { WordsOf(extendedTopics[E].kw) : E \in 1..Len(extendedTopics) }

\* no table word and no extended keyword occurs anywhere in q
NoSubstringOverlap(q) ==
    /\ \A w \in TableWords : ~Includes(q, w)
    /\ \A E \in 1..Len(extendedTopics) : ~Includes(q, extendedTopics[E].kw)

-----------------------------------------------------------------------------
(* C1 *)

WellFormed(data) ==
    /\ data.answer # Null
    /\ data.confidence # UndefinedNumber
    /\ data.topic # Undefined
    /\ data.isLocal = TRUE

\* C1: every call of generateAIResponse, for every query, the empty one
\* included, is eventually resolved with a response that carries an answer, a
\* confidence, a topic and isLocal = true; it is never rejected and does not
\* stay pending forever.
C1_EveryCallResolves ==
    (\E i \in 1..Len(calls) : calls[i].state = "pending")
        ~> (\E c \in Responses : WellFormed(c.data))

C1_Witness ==
    \E c \in Responses : c.query = <<>> /\ WellFormed(c.data)

-----------------------------------------------------------------------------
(* C2 *)

\* C2 as claimed: whenever the normalized query holds a primary key K as a
\* phrase and no override pattern matches, the response has K's topic and
\* K's confidence.
C2_PhraseKeyDecides ==
    \A c \in Responses : \A K \in Keys :
        (PhraseIn(K, c.lowerQuery) /\ ~Overridden(c.lowerQuery))
            => /\ c.data.topic = knowledgeBase[K].topic
               /\ c.data.confidence = knowledgeBase[K].confidence

\* no other key scores more than K, nor as much from an earlier place
LeadsBy(K, ranks) ==
    \E k \in ranks :
        /\ k[1] = K
        /\ \A j \in ranks \ {k} : j[2] < k[2] \/ (j[2] = k[2] /\ j[1] > K)

Leads(K, q) == LeadsBy(K, Ranks(q))

\* C2 amended: whenever the normalized query holds a primary key K as a
\* phrase, no override pattern matches, and no other primary key scores
\* higher than K or equally from an earlier place of the table, the response
\* is K's entry: K's topic and K's confidence.
C2_LeadingPhraseKeyDecides ==
    \A c \in Responses : \A K \in Keys :
        (PhraseIn(K, c.lowerQuery) /\ ~Overridden(c.lowerQuery) /\ Leads(K, c.lowerQuery))
            => IsEntry(c.data, K)

\* a response for a query that holds two keys as phrases, decided by the leading one
C2_Witness ==
    \E c \in Responses : \E K, J \in Keys :
        /\ K # J
        /\ PhraseIn(K, c.lowerQuery) /\ PhraseIn(J, c.lowerQuery)
        /\ ~Overridden(c.lowerQuery) /\ Leads(K, c.lowerQuery)
        /\ IsEntry(c.data, K)

-----------------------------------------------------------------------------
(* C3 *)

\* C3: a query that matches an override pattern (as submitted or in its
\* normalized form) is answered with confidence 0.98 and topic 'General',
\* whatever knowledge entry it matches as well.
C3_OverrideDecides ==
    \A c \in Responses :
        (Overridden(c.query) \/ Overridden(c.lowerQuery))
            => c.data.confidence = 98 /\ c.data.topic = "General"

\* an override answer for a query that holds a primary key of another topic
C3_Witness ==
    \E c \in Responses : \E K \in Keys :
        /\ Overridden(c.lowerQuery)
        /\ PhraseIn(K, c.lowerQuery)
        /\ knowledgeBase[K].topic # "General"
        /\ c.data.confidence = 98 /\ c.data.topic = "General"

-----------------------------------------------------------------------------
(* C4 *)

\* C4 as claimed: a query none of whose words is a constituent word of a
\* primary key or of an extended keyword, and that matches no override
\* pattern, gets confidence 0.65 and the fallback template.
C4_NoCommonWordFallsBack ==
    \A c \in Responses :
        (WordsOf(c.lowerQuery) \cap TableWords = {} /\ ~Overridden(c.lowerQuery))
            => c.data.confidence = 65 /\ IsFallbackText(c.data.answer)

\* C4 amended: a query in whose normalized form no constituent word of a
\* primary key and no extended keyword occurs as a substring, and that
\* matches no override pattern, gets confidence exactly 0.65 and the fallback
\* template with one of the six suggestions.
C4_NoSubstringFallsBack ==
    \A c \in Responses :
        (NoSubstringOverlap(c.lowerQuery) /\ ~Overridden(c.lowerQuery))
            => c.data.confidence = 65 /\ IsFallbackText(c.data.answer)

C4_Witness ==
    \E c \in Responses :
        /\ c.query = <<"p","u","r","p","l","e"," ","e","l","e","p","h","a","n","t"," ","q","u","a","n","t","u","m">>
        /\ NoSubstringOverlap(c.lowerQuery) /\ ~Overridden(c.lowerQuery)
        /\ c.data.confidence = 65 /\ IsFallbackText(c.data.answer)

-----------------------------------------------------------------------------
(* C5 *)

\* the keys that reach the highest score for q
BestBy(ranks) == { k[1] : k \in { b \in ranks : \A j \in ranks : j[2] <= b[2] } }

Best(q) == BestBy(Ranks(q))

\* the earliest of them in the authoring order
First(best) == CHOOSE K \in best : \A J \in best : K <= J

FirstBest(q) == First(Best(q))

\* several keys reach the same highest score, which is at least 1
TieOf(best, q) == Cardinality(best) >= 2 /\ \E K \in best : Rank(K, q) >= 1

Tie(q) == TieOf(Best(q), q)

\* C5: when several primary entries reach the same highest score, the one
\* defined first in the knowledge base is the one the matcher returns, for
\* every value drawn for the delay, the fallback pick, the prefix and the
\* suffix.
C5_EarliestOfEqualScores ==
    \A c \in Responses :
        (Tie(c.lowerQuery) /\ ~Overridden(c.lowerQuery))
            => IsEntry(c.data, FirstBest(c.lowerQuery))

C5_Witness ==
    \E c \in Responses :
        /\ Tie(c.lowerQuery) /\ ~Overridden(c.lowerQuery)
        /\ IsEntry(c.data, FirstBest(c.lowerQuery))
        /\ \E K \in Best(c.lowerQuery) : ~IsEntry(c.data, K)

-----------------------------------------------------------------------------
(* C6 *)

\* the answered questions of the conversation: the places of a user message
\* that is directly followed by the ai message answering it
Answered ==
    { i \in 1..(Len(messages) - 1) :
        /\ messages[i].type = "user"
        /\ messages[i + 1].type = "ai"
        /\ messages[i + 1].confidence # UndefinedNumber }

\* C6: two calls of the engine with the same query return the same topic and
\* the same confidence, whatever is drawn for the delay, the fallback
\* suggestion, the prefix and the suffix.
C6_SameQuerySameTopicAndConfidence ==
    \A i, j \in Answered :
        messages[i].content = messages[j].content
            => /\ messages[i + 1].topic = messages[j + 1].topic
               /\ messages[i + 1].confidence = messages[j + 1].confidence

\* the same question answered twice with different texts
C6_Witness ==
    \E i, j \in Answered :
        /\ i < j
        /\ messages[i].content = messages[j].content
        /\ messages[i + 1].content # messages[j + 1].content
        /\ messages[i + 1].topic = messages[j + 1].topic
        /\ messages[i + 1].confidence = messages[j + 1].confidence

-----------------------------------------------------------------------------
(* C7 *)

\* the conversation a call was made for has been reset since
Abandoned(call) == ConversationHistory(messages) # call.history

\* C7: when the conversation was reset while a response was pending, the
\* delivery of that response leaves the message list as it is.
C7_AbandonedResponseDiscarded ==
    [][\A c \in Responses : Abandoned(c) => messages' = messages]_vars

-----------------------------------------------------------------------------
(* C8 *)

\* C8: "What is a Hash Table?" holds both 'what is' and 'hash table' as
\* phrases and is answered with the 'hash table' entry: topic
\* 'Data Structures', confidence 0.94.
C8_HashTableScenario ==
    \A c \in Responses :
        c.query = <<"W","h","a","t"," ","i","s"," ","a"," ","H","a","s","h"," ","T","a","b","l","e","?">>
            => /\ Includes(c.lowerQuery, <<"w","h","a","t"," ","i","s">>)
               /\ Includes(c.lowerQuery, <<"h","a","s","h"," ","t","a","b","l","e">>)
               /\ c.data.topic = "Data Structures"
               /\ c.data.confidence = 94
               /\ c.data.answer = <<"kb:hash table">>

C8_Witness ==
    \E c \in Responses :
        /\ c.query = <<"W","h","a","t"," ","i","s"," ","a"," ","H","a","s","h"," ","T","a","b","l","e","?">>
        /\ c.data.answer = <<"kb:hash table">>

-----------------------------------------------------------------------------
(* C9 *)

\* C9: the score of a key is 3 times its word count when the normalized
\* query holds the key as a phrase, and otherwise the number of its words
\* that occur in the query, which is at most its word count: a phrase match
\* of a key scores strictly more than any other match of it.  'quick sort'
\* scores 6 against "quick sort algorithm is quick" and 2 against
\* "sort then quick it".
C9_ScoreOfAKey ==
    \A i \in 1..Len(calls) : \A K \in Keys :
        LET q == calls[i].lowerQuery
            n == Len(KeyWordsOf(K))
            score == Score(knowledgeBase[K].key, q)
        IN /\ n >= 1
           /\ PhraseIn(K, q) => score = 3 * n
           /\ ~PhraseIn(K, q) => score = Overlap(K, q) /\ score <= n /\ score < 3 * n
           /\ (q = <<"q","u","i","c","k"," ","s","o","r","t"," ","a","l","g","o","r","i","t","h","m"," ","i","s"," ","q","u","i","c","k">> /\ K = 2) => score = 6
           /\ (q = <<"s","o","r","t"," ","t","h","e","n"," ","q","u","i","c","k"," ","i","t">> /\ K = 2) => score = 2

\* the second query of the scenario has been scored
C9_Witness ==
    \E i \in 1..Len(calls) :
        /\ calls[i].lowerQuery = <<"s","o","r","t"," ","t","h","e","n"," ","q","u","i","c","k"," ","i","t">>
        /\ knowledgeBase[2].key = <<"q","u","i","c","k"," ","s","o","r","t">>
        /\ Score(knowledgeBase[2].key, calls[i].lowerQuery) = 2
        /\ Score(knowledgeBase[2].key, <<"q","u","i","c","k"," ","s","o","r","t"," ","a","l","g","o","r","i","t","h","m"," ","i","s"," ","q","u","i","c","k">>) = 6

-----------------------------------------------------------------------------
(* C10 *)

\* C10: a query that is empty after trimming raises no error and is answered
\* by the fallback: confidence 0.65 and the fallback template.
C10_EmptyQueryFallsBack ==
    /\ \A i \in 1..Len(calls) :
          Trim(calls[i].query) = <<>> => calls[i].state \in {"pending", "fulfilled"}
    /\ \A c \in Responses :
          Trim(c.query) = <<>>
              => c.data.confidence = 65 /\ IsFallbackText(c.data.answer)
    /\ \A i \in { j \in 1..(Len(messages) - 1) : messages[j].type = "user" } :
          Trim(messages[i].content) = <<>> => ~messages[i + 1].isError

\* a blank query that is not the empty string, answered by the fallback
C10_Witness ==
    \E c \in Responses :
        /\ c.query # <<>> /\ Trim(c.query) = <<>>
        /\ c.data.confidence = 65 /\ IsFallbackText(c.data.answer)

-----------------------------------------------------------------------------
(* C11 *)

\* confidence is kept in hundredths: [0, 1] is 0..100
InUnitRange(confidence) == confidence >= 0 /\ confidence <= 100

IsLabel(topic) == topic # "" /\ topic # Undefined

\* the stage a response comes from
FromPrimary(data) == \E K \in Keys : data.answer = knowledgeBase[K].answer

FromExtended(data) == \E E \in 1..Len(extendedTopics) : data.answer = extendedTopics[E].text

FromOverride(data) == data.answer \in {GreetingAnswer, ThanksAnswer, IdentityAnswer}

FromFallback(data) == IsFallbackText(data.answer)

\* C11: every response the engine returns, from the primary table, the
\* extended table, an override or the fallback, carries a confidence between
\* 0 and 1 inclusive and a topic label that is not empty.
C11_ConfidenceAndTopicOfEveryResponse ==
    /\ \A K \in Keys :
          InUnitRange(knowledgeBase[K].confidence) /\ IsLabel(knowledgeBase[K].topic)
    /\ \A E \in 1..Len(extendedTopics) :
          InUnitRange(extendedTopics[E].conf) /\ IsLabel(extendedTopics[E].top)
    /\ \A c \in Responses :
          /\ FromPrimary(c.data) \/ FromExtended(c.data) \/ FromOverride(c.data) \/ FromFallback(c.data)
          /\ InUnitRange(c.data.confidence)
          /\ IsLabel(c.data.topic)

\* a fallback response: the only one whose topic is the initial one
C11_Witness ==
    \E c \in Responses :
        /\ FromFallback(c.data)
        /\ c.data.topic = InitialResult.topic
        /\ InUnitRange(c.data.confidence) /\ IsLabel(c.data.topic)

-----------------------------------------------------------------------------
(* C12 *)

\* the history handed to the engine with the question at place i of the
\* conversation: the messages up to the question itself
HistoryAt(i) == ConversationHistory(SubSeq(messages, 1, i))

\* the answer body of a delivered ai message: its content without the prefix
\* and the suffix
Body(msg) == SubSeq(msg.content, 2, Len(msg.content) - 1)

\* equal, or both the fallback template (with whichever suggestion)
SameBody(a, b) == a = b \/ (IsFallbackText(a) /\ IsFallbackText(b))

\* C12: the conversation history handed to the engine has no influence on
\* the result: the same query asked with two different histories gets the
\* same answer body (up to the suggestion of the fallback), the same
\* confidence and the same topic.
C12_HistoryHasNoInfluence ==
    \A i, j \in Answered :
        (messages[i].content = messages[j].content /\ HistoryAt(i) # HistoryAt(j))
            => /\ SameBody(Body(messages[i + 1]), Body(messages[j + 1]))
               /\ messages[i + 1].confidence = messages[j + 1].confidence
               /\ messages[i + 1].topic = messages[j + 1].topic

\* a question answered from the tables twice, the second time with the first
\* exchange in its history
C12_Witness ==
    \E i, j \in Answered :
        /\ i < j
        /\ messages[i].content = messages[j].content
        /\ Len(HistoryAt(j)) = Len(HistoryAt(i)) + 2
        /\ ~IsFallbackText(Body(messages[i + 1]))
        /\ Body(messages[i + 1]) = Body(messages[j + 1])

-----------------------------------------------------------------------------
(* C13 *)

\* the time a call still has to wait
Remaining(call) == call.thinkingTime - call.elapsed

PendingCalls == { i \in 1..Len(calls) : calls[i].state = "pending" }

\* call i is resolved in this step
ResolvedNow(i) ==
    /\ Len(calls') = Len(calls)
    /\ calls[i].state = "pending"
    /\ calls'[i].state = "fulfilled"

\* C13: with several calls in flight none waits for another: no call stays
\* pending beyond its own delay, and the call that is resolved (and delivered
\* next) is one whose delay has just elapsed and that no pending call
\* precedes in time of expiry, whatever the order of submission.
C13_DeliveredInOrderOfExpiry ==
    /\ [](\A i \in 1..Len(calls) : Remaining(calls[i]) >= 0)
    /\ [][\A i \in PendingCalls :
            ResolvedNow(i)
                => /\ Remaining(calls[i]) = 0
                   /\ \A j \in PendingCalls : Remaining(calls[i]) <= Remaining(calls[j])]_vars

\* the call submitted later drew the shorter delay and is resolved while the
\* earlier one is still pending
C13_Witness ==
    /\ Len(calls) = 2
    /\ calls[1].state = "pending"
    /\ calls[2].state = "fulfilled"
    /\ calls[2].thinkingTime < calls[1].thinkingTime
    /\ Remaining(calls[1]) > 0

-----------------------------------------------------------------------------
(* C14 *)

\* C14: for every query submitted through handleSubmit the promise of the
\* engine is never rejected, the catch branch is not taken and no message
\* flagged isError (the generic error message) is appended.
C14_NoErrorMessage ==
    /\ \A i \in 1..Len(calls) : calls[i].state # "rejected"
    /\ \A i \in 1..Len(messages) : ~messages[i].isError /\ messages[i] # ErrorMessage

\* the try branch was taken to its end: an answer with confidence and topic
\* follows its question
C14_Witness ==
    \E i \in Answered :
        /\ messages[i].content = <<"W","h","a","t"," ","i","s"," ","a"," ","H","a","s","h"," ","T","a","b","l","e","?">>
        /\ messages[i + 1].type = "ai"
        /\ ~messages[i + 1].isError
        /\ messages[i + 1].topic = "Data Structures"

-----------------------------------------------------------------------------
(* C15 *)

\* the histories the calls in flight were given, oldest call first
HistoriesOf(cs) == [i \in 1..Len(cs) |-> cs[i].history]

\* from one state to the next the histories stay as they are: one is added
\* with a new call, one leaves with a delivered call, none is changed
HistoriesKept(before, after) ==
    \/ after = before
    \/ Len(after) = Len(before) + 1 /\ SubSeq(after, 1, Len(before)) = before
    \/ \E i \in 1..Len(before) : after = RemoveAt(before, i)

\* C15: no call of the engine, alone or with others in flight, changes the
\* primary knowledge table or the conversation history it was given, nor the
\* messages the history was copied from: the table is at every time the one
\* that was authored, and resolving a call writes to nothing but the call.
\* (The extended keyword table is a literal built anew inside each callback,
\* so no call can see what another one did to it.)
C15_TablesAndHistoryUntouched ==
    /\ [](knowledgeStore = knowledgeBase)
    /\ [][/\ HistoriesKept(HistoriesOf(calls), HistoriesOf(calls'))
          /\ \A i \in PendingCalls : ResolvedNow(i) => messages' = messages]_vars

\* one answer is delivered and a second call, made while the first was in
\* flight, is resolved
C15_Witness ==
    /\ \E i \in 1..Len(messages) :
          messages[i].type = "ai" /\ messages[i].confidence # UndefinedNumber
    /\ \E c \in Responses : Len(c.history) >= 3 /\ c.data.answer # Null
    /\ knowledgeStore = knowledgeBase

-----------------------------------------------------------------------------
(* C16 *)

\* the highest score among the pairs <<key, score>>
TopOf(ranks) == CHOOSE s \in { k[2] : k \in ranks } : \A j \in ranks : j[2] <= s

\* the highest score any primary key reaches for q
TopRank(q) == TopOf(Ranks(q))

\* what the matcher holds after its loop (best) and what it hands on (res),
\* against the scores of all keys
MatcherTakes(call, best, res, ranks, top) ==
    /\ best.bestScore = top
    /\ top >= 1
         => /\ best.bestMatch \in BestBy(ranks)
            /\ res.response = knowledgeBase[best.bestMatch].answer
            /\ res.confidence = knowledgeBase[best.bestMatch].confidence
            /\ res.topic = knowledgeBase[best.bestMatch].topic
    /\ top = 0
         => /\ best.bestMatch = 0
            /\ res = InitialResult
            /\ ~FromPrimary(call.data)

\* C16: the entry the primary matcher holds after its loop has the highest
\* score of all primary entries; it is accepted exactly when that score is
\* at least 1, and when every entry scores 0 the matcher reports no match
\* and the answer of the call does not come from the primary table.
C16_PrimaryMatcherTakesTheMaximum ==
    \A c \in Responses :
        \A ranks \in { Ranks(c.lowerQuery) } :
        \A top \in { TopOf(ranks) } :
        \A best \in { MatchLoop(c.lowerQuery, 1, 0, 0) } :
        \A res \in { PrimaryStage(c.lowerQuery, InitialResult) } :
            MatcherTakes(c, best, res, ranks, top)

\* an entry accepted with the lowest score that is enough: one word hit
C16_Witness ==
    \E c \in Responses :
        /\ TopRank(c.lowerQuery) = 1
        /\ ~Overridden(c.lowerQuery)
        /\ IsEntry(c.data, FirstBest(c.lowerQuery))

-----------------------------------------------------------------------------
(* C17 *)

\* the extended keywords the normalized query q holds
KeywordsIn(q) == { E \in 1..Len(extendedTopics) : Includes(q, extendedTopics[E].kw) }

\* C17: the extended keyword table is consulted only when the primary
\* matcher found nothing: whenever some primary entry scores at least 1,
\* the stage hands on what it was given and the response does not come from
\* an extended keyword entry.
C17_ExtendedOnlyWithoutPrimary ==
    \A c \in Responses :
        \A top \in { TopRank(c.lowerQuery) } :
        \A res \in { PrimaryStage(c.lowerQuery, InitialResult) } :
            top >= 1
                => /\ ExtendedStage(c.lowerQuery, res) = res
                   /\ ~FromExtended(c.data)

\* a query that holds an extended keyword and is answered from the primary
\* table
C17_Witness ==
    \E c \in Responses :
        /\ KeywordsIn(c.lowerQuery) # {}
        /\ TopRank(c.lowerQuery) >= 1
        /\ ~Overridden(c.lowerQuery)
        /\ FromPrimary(c.data)

-----------------------------------------------------------------------------
(* C18 *)

\* the keyword of q that comes first in the table
FirstKeyword(q) == CHOOSE E \in KeywordsIn(q) : \A F \in KeywordsIn(q) : E <= F

\* the keywords in the order of the table
ExtendedOrder == [E \in 1..Len(extendedTopics) |-> extendedTopics[E].kw]

\* C18: when no primary entry scores and the normalized query holds several
\* extended keywords, the secondary matcher returns the entry of the keyword
\* that comes first in the order of the table (array, pointer, oop, sql,
\* complexity, bfs, dfs, binary search); without an override that entry's
\* answer, topic and confidence are the response's.
C18_FirstKeywordOfTheTable ==
    /\ ExtendedOrder = << <<"a","r","r","a","y">>, <<"p","o","i","n","t","e","r">>, <<"o","o","p">>, <<"s","q","l">>, <<"c","o","m","p","l","e","x","i","t","y">>,
                          <<"b","f","s">>, <<"d","f","s">>, <<"b","i","n","a","r","y"," ","s","e","a","r","c","h">> >>
    /\ \A c \in Responses :
        \A found \in { KeywordsIn(c.lowerQuery) } :
            (found # {} /\ TopRank(c.lowerQuery) = 0)
                => \A E \in { FirstKeyword(c.lowerQuery) } :
                    /\ ExtendedStage(c.lowerQuery, InitialResult).response = extendedTopics[E].text
                    /\ ~Overridden(c.lowerQuery)
                         => /\ c.data.answer = extendedTopics[E].text
                            /\ c.data.topic = extendedTopics[E].top
                            /\ c.data.confidence = extendedTopics[E].conf

\* two keywords in one query: the one answered is the first of the table
C18_Witness ==
    \E c \in Responses :
        /\ Cardinality(KeywordsIn(c.lowerQuery)) >= 2
        /\ TopRank(c.lowerQuery) = 0
        /\ ~Overridden(c.lowerQuery)
        /\ c.data.answer = extendedTopics[FirstKeyword(c.lowerQuery)].text

-----------------------------------------------------------------------------
(* C19 *)

\* the patterns q matches, in the order they are checked
OverridesOf(q) ==
    (IF IsGreeting(q) THEN {1} ELSE {}) \cup (IF IsThanks(q) THEN {2} ELSE {})
        \cup (IF IsIdentity(q) THEN {3} ELSE {})

\* the answers of the three checks, in the order they are made
OverrideAnswers == <<GreetingAnswer, ThanksAnswer, IdentityAnswer>>

\* C19: the overrides are checked in the order greeting, thanks, identity,
\* after the knowledge matchers, each matching check overwriting what was
\* there: a query that matches several patterns gets the answer of the last
\* one that matches, and that one override answer only.
C19_LastOverrideWins ==
    /\ Cardinality({ OverrideAnswers[n] : n \in 1..3 }) = 3
    /\ \A c \in Responses :
        \A matched \in { OverridesOf(c.lowerQuery) } :
            /\ matched # {}
                 => \A last \in { n \in matched : \A k \in matched : k <= n } :
                        /\ c.data.answer = OverrideAnswers[last]
                        /\ \A n \in 1..3 \ {last} : c.data.answer # OverrideAnswers[n]
            /\ matched = {} => ~FromOverride(c.data)

\* a query that matches all three patterns and is answered by the identity
C19_Witness ==
    \E c \in Responses :
        /\ OverridesOf(c.lowerQuery) = {1, 2, 3}
        /\ c.data.answer = IdentityAnswer

-----------------------------------------------------------------------------
(* C20 *)

\* the query as submitted, letter case set aside: whitespace kept
RawQuery(call) == ToLowerCase(call.query)

\* C20 as claimed: the override patterns are tested against the query as it
\* was submitted, so a greeting answer is given only to a query that has the
\* greeting opener at its very start.
C20_GreetingAtStartOfRawQuery ==
    \A c \in Responses :
        c.data.answer = GreetingAnswer => IsGreeting(RawQuery(c))

\* C20 amended: the override patterns are tested against the trimmed
\* lower-cased query, the one used for knowledge matching: the greeting
\* answer is given exactly when that query starts with a greeting opener
\* and matches neither the thanks nor the identity pattern, the thanks
\* answer exactly when it matches the thanks and not the identity pattern,
\* the identity answer exactly when it matches the identity pattern;
\* whitespace before the opener and capital letters do not matter.
C20_OverridesTestNormalizedQuery ==
    \A c \in Responses :
        \A q \in { Trim(ToLowerCase(c.query)) } :
            /\ c.data.answer = GreetingAnswer
                 <=> (IsGreeting(q) /\ ~IsThanks(q) /\ ~IsIdentity(q))
            /\ c.data.answer = ThanksAnswer <=> (IsThanks(q) /\ ~IsIdentity(q))
            /\ c.data.answer = IdentityAnswer <=> IsIdentity(q)

\* a greeting answer for a query that starts with blanks and a capital letter
C20_Witness ==
    \E c \in Responses :
        /\ Len(c.query) >= 1 /\ c.query[1] = " "
        /\ ~IsGreeting(c.query) /\ ~IsGreeting(RawQuery(c))
        /\ ToLowerCase(c.query) # c.query
        /\ c.data.answer = GreetingAnswer

-----------------------------------------------------------------------------
(* C21 *)

\* C21: the fallback runs only when no stage before it produced a result: a
\* response with confidence 0.65 is given only to a query for which every
\* primary entry scores 0, which holds no extended keyword and matches no
\* override pattern; its text suggests one of the six names of the
\* suggestion list and its topic is the default 'General'.
C21_FallbackOnlyWhenNothingElse ==
    \A c \in Responses :
        (c.data.confidence = 65 \/ FromFallback(c.data))
            => /\ TopRank(c.lowerQuery) = 0
               /\ KeywordsIn(c.lowerQuery) = {}
               /\ ~Overridden(c.lowerQuery)
               /\ c.data.confidence = 65
               /\ IsFallbackText(c.data.answer)
               /\ c.data.topic = "General"
               /\ InitialResult.topic = "General"

\* a fallback response that suggests the fourth name of the list
C21_Witness ==
    \E c \in Responses :
        /\ c.data.confidence = 65
        /\ c.lowerQuery # <<>>
        /\ c.data.answer = FallbackAnswer(suggestions[4])
        /\ TopRank(c.lowerQuery) = 0 /\ KeywordsIn(c.lowerQuery) = {}

-----------------------------------------------------------------------------
(* C22 *)

\* C22 as claimed: matching and overrides are finished before the delay
\* starts: a call whose delay is still running holds its result already.
C22_MatchedBeforeTheDelay ==
    \A i \in PendingCalls : Remaining(calls[i]) > 0 => calls[i].data.answer # Null

\* an answer of the engine is appended to the conversation in this step
AnswerAppended ==
    /\ Len(messages') = Len(messages) + 1
    /\ messages'[Len(messages')].type = "ai"
    /\ SubSeq(messages', 1, Len(messages)) = messages

\* C22 amended: the stages of a query are Received, Normalizing, Delaying,
\* Matching, (Override), Composing, Delivered.  Before the delay only the
\* query is normalized and the delay drawn; while the delay runs nothing is
\* matched; matching, overrides and fallback run in the timer callback when
\* the delay has elapsed and leave the conversation as it is; prefix and
\* suffix are composed after that, in the step that delivers the message.
C22_MatchedAndComposedAfterTheDelay ==
    /\ [](\A i \in PendingCalls :
            /\ calls[i].lowerQuery = Trim(ToLowerCase(calls[i].query))
            /\ calls[i].thinkingTime \in { ThinkingTime(r) : r \in RandomValues }
            /\ calls[i].data = NoData)
    /\ [][\A i \in PendingCalls :
            ResolvedNow(i)
                => /\ Remaining(calls[i]) = 0
                   /\ calls'[i].data.answer # Null
                   /\ messages' = messages]_vars
    /\ [][AnswerAppended
            => \E c \in Responses :
                /\ Remaining(c) = 0
                /\ Body(messages'[Len(messages')]) = c.data.answer
                /\ Len(calls') = Len(calls) - 1]_vars

\* the delay has elapsed and the answer is matched, not yet composed: the
\* conversation ends with the question
C22_Witness ==
    \E c \in Responses :
        /\ Remaining(c) = 0
        /\ c.data.answer # Null
        /\ messages[Len(messages)].type = "user"
        /\ messages[Len(messages)].content = c.query

-----------------------------------------------------------------------------
(* C23 *)

Prefixes == { friendlyPrefixes[n] : n \in 1..Len(friendlyPrefixes) }

Suffixes == { friendlySuffixes[n] : n \in 1..Len(friendlySuffixes) }

\* msg is data wrapped: a prefix, the answer as it is, a suffix, with the
\* confidence and the topic of data
Wraps(msg, data) ==
    /\ Len(msg.content) = Len(data.answer) + 2
    /\ msg.content[1] \in Prefixes
    /\ Body(msg) = data.answer
    /\ msg.content[Len(msg.content)] \in Suffixes
    /\ msg.confidence = data.confidence
    /\ msg.topic = data.topic

\* C23: for every delivered response, whichever stage produced the answer,
\* the content of the ai message is one of the 5 prefixes, then the answer
\* body unchanged, then one of the 4 suffixes, and the confidence and the
\* topic of the message are those the engine returned.
C23_AnswerWrappedUnchanged ==
    /\ [](Cardinality(Prefixes) = 5 /\ Cardinality(Suffixes) = 4)
    /\ [][AnswerAppended
            => \E c \in Responses : Wraps(messages'[Len(messages')], c.data)]_vars

\* a delivered fallback answer, wrapped as every other
C23_Witness ==
    \E i \in Answered :
        /\ IsFallbackText(Body(messages[i + 1]))
        /\ messages[i + 1].content[1] \in Prefixes
        /\ messages[i + 1].confidence = 65

-----------------------------------------------------------------------------
(* C24 *)

\* C24: the delay drawn for a query is at least 800 ms and at most 2000 ms,
\* and no response is there (resolved, then delivered) before the delay
\* drawn for it has elapsed.
C24_DelayWithinWindow ==
    /\ \A r \in RandomValues : ThinkingTime(r) >= 800 /\ ThinkingTime(r) <= 2000
    /\ \A i \in 1..Len(calls) :
          /\ calls[i].thinkingTime >= 800
          /\ calls[i].thinkingTime <= 2000
          /\ calls[i].state = "fulfilled" => calls[i].elapsed >= calls[i].thinkingTime
          /\ calls[i].elapsed < calls[i].thinkingTime => calls[i].data = NoData

\* a response resolved right when a delay of more than 800 ms has elapsed
C24_Witness ==
    \E c \in Responses :
        /\ c.thinkingTime > 800
        /\ c.elapsed = c.thinkingTime

-----------------------------------------------------------------------------
(* C25 *)

\* the user and ai messages of the conversation, in their order
ChatOf(msgs) == SelectSeq(msgs, LAMBDA m : m.type # "system")

\* h is the end of chat, as type and content, and all of it up to 10
LastOfChat(h, chat) ==
    /\ Len(h) <= 10
    /\ Len(h) = (IF Len(chat) <= 10 THEN Len(chat) ELSE 10)
    /\ \A k \in 1..Len(h) :
          /\ h[k].type \in {"user", "ai"}
          /\ h[k] = [type |-> chat[Len(chat) - Len(h) + k].type,
                     content |-> chat[Len(chat) - Len(h) + k].content]

\* C25: the history handed to the engine with a submit holds at most 10
\* messages: the most recent user and ai messages of the conversation in
\* their order, upload messages left out, the last one being the question
\* just submitted; older messages are dropped from the history only, the
\* message list of the page keeps them.
C25_HistoryIsLastTenChatMessages ==
    \A i \in 1..Len(calls) :
        \A chat \in { ChatOf(messages) } :
            /\ LastOfChat(calls[i].history, chat)
            /\ calls[i].history[Len(calls[i].history)]
                   = [type |-> "user", content |-> calls[i].query]
            /\ messages[1] = WelcomeMessage
            /\ Len(messages) >= Len(chat)

\* more than 10 user and ai messages and an upload message among them: the
\* history holds 10 and not the oldest
C25_Witness ==
    \E i \in 1..Len(calls) :
        /\ Len(ChatOf(messages)) > 10
        /\ Len(messages) > Len(ChatOf(messages))
        /\ Len(calls[i].history) = 10
        /\ calls[i].history[1].content # WelcomeMessage.content

-----------------------------------------------------------------------------
(* C26 *)

\* C26: every extended keyword entry is reachable through its own keyword:
\* the response to the query that is exactly one of the eight keywords has
\* the topic and the confidence of that keyword's entry.
C26_EveryKeywordReachesItsEntry ==
    \A c \in Responses :
        \A E \in 1..Len(extendedTopics) :
            c.lowerQuery = extendedTopics[E].kw
                => /\ c.data.topic = extendedTopics[E].top
                   /\ c.data.confidence = extendedTopics[E].conf

-----------------------------------------------------------------------------
(* C27 *)

\* the Ask page with time passing, timers firing and continuations running
FairNext ==
    \/ SetQuery(PageQueries, MaxMessages - 1)
    \/ HandleFileUpload(MaxMessages - 1)
    \/ ClearChat
    \/ HandleSubmit(MaxMessages - 1)
    \/ Tick
    \/ \E i \in 1..Len(calls) : TimerFires(i)
    \/ \E i \in 1..Len(calls) : Deliver(i)

FairSpec == Init /\ [][FairNext]_vars /\ Fairness

\* nothing to send: a blank query and no uploaded file
NothingToSend == Trim(query) = <<>> /\ Len(uploadedFiles) = 0

\* a step that takes a question: a call is made, loading is switched on or a
\* user message is appended
QuestionTaken ==
    \/ Len(calls') > Len(calls)
    \/ ~loading /\ loading'
    \/ /\ Len(messages') = Len(messages) + 1
       /\ messages'[Len(messages')].type = "user"

\* C27: on the Ask page a submit with a blank query and no uploaded file
\* changes nothing; every other submit appends the user message and sets
\* loading to true; loading is true exactly while the one call is in flight,
\* it turns false in the step that appends the one ai message for that call,
\* and it never stays true forever.
C27_SubmitIsAnsweredOnce ==
    /\ [][NothingToSend => ~QuestionTaken]_vars
    /\ [][QuestionTaken =>
            /\ ~loading /\ loading'
            /\ Len(calls') = Len(calls) + 1
            /\ Len(messages') = Len(messages) + 1
            /\ SubSeq(messages', 1, Len(messages)) = messages
            /\ messages'[Len(messages')].type = "user"
            /\ messages'[Len(messages')].content = query
            /\ calls'[Len(calls')].query = query]_vars
    /\ [](Len(calls) <= 1 /\ (loading <=> Len(calls) = 1))
    /\ [][(loading /\ ~loading') =>
            /\ AnswerAppended
            /\ calls' = <<>>
            /\ calls[1].state = "fulfilled"
                   => Wraps(messages'[Len(messages')], calls[1].data)]_vars
    /\ [][(loading /\ AnswerAppended) => ~loading']_vars
    /\ loading ~> ~loading

\* a question was sent and its answer is the last message: loading is false
\* again
C27_Witness ==
    /\ ~loading
    /\ calls = <<>>
    /\ Len(messages) >= 3
    /\ messages[Len(messages)].type = "ai"
    /\ messages[Len(messages) - 1].type = "user"
    /\ messages[Len(messages)].confidence # UndefinedNumber

-----------------------------------------------------------------------------
(* C28 *)

\* a quiz is loaded and has at least one question
QuizLoaded == quizPage.quiz # <<>> /\ Len(quizPage.quiz[1].questions) >= 1

\* the index of the last question
LastIndex == Len(quizPage.quiz[1].questions) - 1

\* C28: in a loaded quiz with at least one question currentIndex stays
\* within 0 .. questions.length - 1 whatever Next, Previous, navigation dots
\* and restarts do; Next on the last question and Previous on the first
\* leave currentIndex as it is; a startQuiz that succeeds sets currentIndex
\* to 0, answers to empty, submitted to false and results to null.
C28_CurrentIndexInRange ==
    /\ [](QuizLoaded =>
            /\ quizPage.currentIndex \in 0..LastIndex
            /\ quizPage.currentIndex = LastIndex =>
                   NextIndex(quizPage.currentIndex, quizPage.quiz[1]) = quizPage.currentIndex
            /\ quizPage.currentIndex = 0 => PrevIndex(quizPage.currentIndex) = 0
            /\ DOMAIN quizPage.answers \subseteq 0..LastIndex)
    /\ [](quizPage.request = "generate" =>
            \A n \in 0..MaxQuestions :
                \A page \in { QuizGenerated(quizPage, QuizData(n)) } :
                    /\ page.quiz = <<QuizData(n)>>
                    /\ page.currentIndex = 0
                    /\ page.answers = NoAnswers
                    /\ ~page.submitted
                    /\ page.results = <<>>)
    /\ [][(quizPage.request = "generate" /\ quizPage'.quiz # quizPage.quiz) =>
            /\ quizPage'.currentIndex = 0
            /\ quizPage'.answers = NoAnswers
            /\ ~quizPage'.submitted
            /\ quizPage'.results = <<>>
            /\ ~quizPage'.loading]_vars
    /\ [][(quizPage.request # "generate") => quizPage'.quiz = quizPage.quiz]_vars

\* a quiz was answered, submitted on its last question, which is not the
\* first, and is being restarted
C28_Witness ==
    /\ QuizLoaded
    /\ quizPage.request = "generate"
    /\ quizPage.submitted
    /\ quizPage.currentIndex = LastIndex
    /\ quizPage.currentIndex >= 1
    /\ quizPage.answers # NoAnswers

-----------------------------------------------------------------------------
(* C29 *)

\* the stored auth data holds an api_key
HoldsApiKey ==
    /\ localStorage # <<>>
    /\ \E i \in 1..Len(localStorage[1]) : localStorage[1][i][1] = "api_key"

\* the calls of authApi.login and authApi.register in flight
AuthCalls == { i \in 1..Len(requests) : requests[i].api # "fetchWithAuth" }

\* the continuation of request i runs in this step
Continues(i) == requests[i].response # <<>> /\ requests' # requests

\* C29: isAuthenticated() is true exactly when the stored auth data holds an
\* api_key, and ProtectedRoute shows /login exactly when it is false; a
\* login or register that succeeds makes it true, one that fails leaves the
\* stored data as it is; a request of fetchWithAuth answered with 401 and a
\* logout clear the stored data; once false it turns true only with a login
\* or register that succeeds.
C29_SessionFollowsStoredKey ==
    /\ [](isAuthenticated <=> HoldsApiKey)
    /\ [](ProtectedRoute("/") = (IF isAuthenticated THEN "/" ELSE "/login"))
    /\ [][\A i \in 1..Len(requests) : Continues(i) =>
            /\ (i \in AuthCalls /\ requests[i].response[1].ok) => isAuthenticated'
            /\ (i \in AuthCalls /\ ~requests[i].response[1].ok)
                   => localStorage' = localStorage
            /\ (i \notin AuthCalls /\ requests[i].response[1].status = 401)
                   => localStorage' = <<>> /\ ~isAuthenticated' /\ location' = "/login"]_vars
    /\ [][(location = "/" /\ location' = "/login")
            => localStorage' = <<>> /\ ~isAuthenticated']_vars
    /\ [][(~isAuthenticated /\ isAuthenticated')
            => \E i \in AuthCalls : Continues(i) /\ requests[i].response[1].ok]_vars
    /\ [][(isAuthenticated /\ ~isAuthenticated') => localStorage' = <<>>]_vars

\* signed in, and a request sent with the key of the session has been
\* answered with 401
C29_Witness ==
    /\ isAuthenticated
    /\ \E i \in 1..Len(requests) :
          /\ requests[i].api = "fetchWithAuth"
          /\ Get(requests[i].body, "X-API-Key") = getApiKey
          /\ requests[i].response # <<>>
          /\ requests[i].response[1].status = 401

-----------------------------------------------------------------------------
(* C30 *)

\* the form passes for the mode of the page: sign in needs an email and a
\* password, sign up a name, the password repeated and six characters as well
FormValid ==
    /\ loginPage.formData.email # <<>>
    /\ loginPage.formData.password # <<>>
    /\ ~loginPage.isLogin =>
          /\ loginPage.formData.name # <<>>
          /\ loginPage.formData.password = loginPage.formData.confirmPassword
          /\ Len(loginPage.formData.password) >= 6

ValidationMessages ==
    { "Please enter email and password", "Please enter your name",
      "Passwords do not match", "Password must be at least 6 characters" }

\* a call of authApi.login or authApi.register is made in this step
AuthCallMade ==
    /\ Len(requests') = Len(requests) + 1
    /\ requests'[Len(requests')].api # "fetchWithAuth"

\* C30: the login page calls the backend only with a form that passes:
\* authApi.login with a non-empty email and password, authApi.register with
\* a non-empty name, the password repeated and at least 6 characters as
\* well; a form that does not pass gets one of the four error messages, no
\* call and no loading; loading is true exactly while the call is in flight
\* and false after its continuation, whatever the answer.
C30_BackendCalledAfterValidation ==
    /\ [](Cardinality(AuthCalls) <= 1 /\ (loginPage.loading <=> AuthCalls # {}))
    /\ [](location = "/login" =>
            (FormValid <=> ValidationError(loginPage.formData, loginPage.isLogin) = ""))
    /\ [](~FormValid =>
            ValidationError(loginPage.formData, loginPage.isLogin) \in ValidationMessages)
    /\ [][AuthCallMade =>
            /\ FormValid
            /\ ~loginPage.loading /\ loginPage'.loading
            /\ requests'[Len(requests')].api =
                   (IF loginPage.isLogin THEN "login" ELSE "register")
            /\ Get(requests'[Len(requests')].body, "email") = loginPage.formData.email
            /\ Get(requests'[Len(requests')].body, "password") = loginPage.formData.password]_vars
    /\ [][~FormValid => ~AuthCallMade /\ ~(~loginPage.loading /\ loginPage'.loading)]_vars
    /\ [][(loginPage'.error \in ValidationMessages /\ loginPage'.error # loginPage.error) =>
            /\ ~FormValid
            /\ requests' = requests
            /\ ~loginPage.loading /\ ~loginPage'.loading]_vars
    /\ [][\A i \in AuthCalls : Continues(i) => ~loginPage'.loading]_vars

\* a sign up with a password of three characters, repeated, was refused
C30_Witness ==
    /\ loginPage.error = "Password must be at least 6 characters"
    /\ ~loginPage.isLogin
    /\ Len(loginPage.formData.password) = 3
    /\ ~loginPage.loading
    /\ AuthCalls = {}

====
